---- MODULE Spec2Model ----
(***************************************************************************)
(* Verification development for llm-builds-linux.                          *)
(*                                                                         *)
(* Two independent top-level flows of the repository are modelled:         *)
(*   - TaskRunner (src/linux/benchmark/src/runner.py): provisioning,       *)
(*     the five verification kinds, evaluate_task and its aggregation;     *)
(*     specification Spec.                                                  *)
(*   - BenchmarkRunner (src/linux/benchmark/artifacts/src/                 *)
(*     benchmark_runner.py): the trace collector, run_task and             *)
(*     run_all_benchmarks; specification SpecTrace.                        *)
(* The verification engine and the Task serialization are also modelled    *)
(* on their own (SpecCheck, SpecCodec), as are callers that start          *)
(* provisions and runs of their choice (SpecProv, SpecRuns) and an         *)
(* evaluation on a filesystem that changes under it (SpecArt), two         *)
(* run_task calls on one BenchmarkRunner in any interleaving (SpecShared)  *)
(* and the post-call hook on outputs around its length limit (SpecTool).   *)
(*                                                                         *)
(* Python's Optional[T] is modelled as a sequence of length 0 (None) or 1  *)
(* (the value); strings that the code inspects are sequences of            *)
(* characters, so that substring tests and truthiness are computed.        *)
(***************************************************************************)
EXTENDS Integers, Sequences, FiniteSets, TLC

VARIABLES
    \* ---- TaskRunner (runner.py) ----
    config,                 \* RunnerConfig: docker_enabled, qemu_enabled, timeout_multiplier
    task,                   \* the Task under evaluation (verification_steps, success_artifacts)
    fs,                     \* the local filesystem: path -> <<>> (absent) or <<[size, digest]>>
    pc,                     \* evaluate_task: "idle", "verifying", "done" (returned), "aborted" (raised)
    step_iter,              \* evaluate_task's for loop: number of steps it has taken
    verification_results,   \* evaluate_task's list of outcome dicts
    errors,                 \* evaluate_task's list of error strings
    success,                \* evaluate_task's success flag
    task_result,            \* the TaskResult returned: <<>> until evaluate_task returns
    execLog,                \* per run_verification call: step index, container_id, what the
                            \* check raised and how its probe failed
    provisions,             \* per setup_environment call: its outcome and docker's answers
    teardowns,              \* per returned handle: number of "docker rm -f" issued for it
    \* ---- BenchmarkRunner (benchmark_runner.py) ----
    tpc,                    \* position of run_all_benchmarks / run_task
    clock,                  \* wall clock, whole seconds
    taskIdx,                \* index into BENCHMARK_TASKS of the run in progress
    current_trace,          \* BenchmarkRunner._current_trace: <<>> or <<AgentTrace>>
    tool_start_time,        \* BenchmarkRunner._tool_start_time: <<>> or <<seconds>>
    trace_id,               \* run_task's local trace_id
    messages,               \* run_task's local list of serialized messages
    start_time,             \* run_task's local start_time
    files,                  \* trace directory: file name -> content written
    writes,                 \* file names written, one entry per write, in order
    results,                \* run_all_benchmarks' list of returned traces
    propagated,             \* an exception has escaped run_task / run_all_benchmarks
    events,                 \* stream events so far, over all runs
    runLog,                 \* per ended run_task call: the exception the agent raised, if any
    \* ---- run_verification called on its own (runner.py) ----
    check_step,             \* the VerificationStep handed to run_verification
    check_cid,              \* the container_id handed to run_verification
    cpc,                    \* "idle", or "running" while a run_verification call is in progress
    probe,                  \* the outside world's answer to the call in progress: <<>> or <<probe>>
    checkLog,               \* per returned run_verification call: probe, outcome, what it touched
    \* ---- Task.to_dict / Task.from_dict (task.py) ----
    original,               \* the Task that is serialized
    data,                   \* the dictionary to_dict returned: <<>> or <<dict>>
    restored,               \* the Task from_dict returned: <<>> or <<Task>>
    \* ---- one BenchmarkRunner used by two callers (benchmark_runner.py) ----
    heap,                   \* the AgentTrace objects created so far; a reference is an index
    cur,                    \* BenchmarkRunner._current_trace as a reference: <<>> or <<index>>
    runs,                   \* per run_task call: its position and its local variables
    hookLog,                \* the hook invocations so far, in firing order
    \* ---- one _post_tool_hook invocation (benchmark_runner.py) ----
    tool_response,          \* str(input_data.tool_response)
    tool_call               \* the ToolCall the hook built: <<>> or <<ToolCall>>

evalVars == <<config, task, fs, pc, step_iter, verification_results, errors, success, task_result,
              execLog, provisions, teardowns>>
traceVars == <<tpc, clock, taskIdx, current_trace, tool_start_time, trace_id, messages,
               start_time, files, writes, results, propagated, events, runLog>>
unitVars == <<check_step, check_cid, cpc, probe, checkLog, original, data, restored>>
hookVars == <<heap, cur, runs, hookLog, tool_response, tool_call>>
vars == <<evalVars, traceVars, unitVars, hookVars>>

-----------------------------------------------------------------------------
(* Bounds of the model *)

\* longest verification_steps list explored
MaxSteps == 2
\* number of setup_environment calls explored
MaxProvisions == 2
\* number of cleanup calls explored per handle
MaxCleanups == 2
\* events of the agent stream (messages, hook firings, clock ticks) explored,
\* over all runs of one run_all_benchmarks call
MaxEvents == 3
\* clock ticks per wall-clock second (strftime has one-second resolution)
TicksPerSecond == 2

-----------------------------------------------------------------------------
(* Generic helpers *)

None == <<>>
Some(v) == <<v>>

\* all sequences over S of length at most n
SeqsUpTo(S, n) == UNION {[1..k -> S] : k \in 0..n}

\* Python: sub in s, for strings as character sequences
Contains(sub, s) ==
    \E i \in 0..(Len(s) - Len(sub)) :
        \A j \in 1..Len(sub) : s[i + j] = sub[j]

\* the subsequence of s whose elements satisfy membership in keep, order kept
RECURSIVE FilterSeq(_, _)
FilterSeq(s, keep) ==
    IF s = <<>> THEN <<>>
    ELSE IF Head(s) \in keep THEN <<Head(s)>> \o FilterSeq(Tail(s), keep)
         ELSE FilterSeq(Tail(s), keep)

-----------------------------------------------------------------------------
(* Data model: task.py *)

\* VerificationType values
VerificationType == {"boot_test", "file_check", "checksum", "command_output", "size_check"}

\* number of bytes in one MB, as _verify_size divides
BytesPerMB == 1048576

\* default of VerificationStep.timeout_seconds
DefaultTimeout == 300

Paths == {"f1", "f2"}

Digest0 == <<"d", "0">>
Digest1 == <<"d", "1">>
OkText == <<"o", "k">>

\* two digests that agree on their first 16 characters and differ, by letter
\* case only, in the 17th
DigestLong == [i \in 1..17 |-> IF i <= 16 THEN "a" ELSE "f"]
DigestLongUpper == [i \in 1..17 |-> IF i <= 16 THEN "a" ELSE "F"]

\* VerificationStep(...) with the dataclass defaults for the fields not given
VerificationStep(type, cmd, expected, expected_files, max_mb, min_mb, timeout) ==
    [type |-> type, description |-> type, command |-> cmd,
     expected_output |-> expected, expected_files |-> expected_files,
     max_size_mb |-> max_mb, min_size_mb |-> min_mb,
     timeout_seconds |-> timeout]

\* the verification steps tasks are drawn from: every kind, as the task registry uses them
StepPool ==
    { VerificationStep("file_check", None, None, <<"f1">>, None, None, DefaultTimeout),
      VerificationStep("size_check", None, None, <<"f1">>, Some(2), Some(1), DefaultTimeout),
      VerificationStep("command_output", Some("cmd"), Some(OkText), <<>>, None, None, 30),
      VerificationStep("command_output", Some("cmd"), None, <<>>, None, None, 30),
      VerificationStep("boot_test", Some("qemu"), Some(OkText), <<>>, None, None, 90),
      VerificationStep("checksum", None, Some(Digest1), <<"f1">>, None, None, DefaultTimeout) }

\* the tasks explored: the fields evaluate_task and setup_environment read
Tasks ==
    [id : {"t1"},
     verification_steps : SeqsUpTo(StepPool, MaxSteps),
     success_artifacts : {<<>>, <<"f1", "f2">>}]

\* the tasks explored together with provisioning: a check that reads the filesystem
\* and a check that launches a command
ProvStepPool ==
    { s \in StepPool : s.type = "file_check"
                       \/ (s.type = "command_output" /\ s.expected_output = None) }

ProvTasks ==
    [id : {"t1"},
     verification_steps : SeqsUpTo(ProvStepPool, MaxSteps),
     success_artifacts : {<<"f1", "f2">>}]

\* RunnerConfig as cmd_run builds it (timeout_multiplier keeps its default)
Configs ==
    [docker_enabled : BOOLEAN, qemu_enabled : BOOLEAN, timeout_multiplier : {1}]

\* a file is absent, or has a size in bytes and a content digest
FileStates ==
    { None,
      Some([size |-> 0, digest |-> Digest0]),
      Some([size |-> 2 * BytesPerMB, digest |-> Digest1]) }

FileSystems == [Paths -> FileStates]

\* what an external process launched by a check can do
CmdResults ==
    [kind : {"done"}, returncode : {0, 1}, output : {<<>>, OkText}]
    \cup [kind : {"timeout"}, returncode : {0}, output : {<<>>}]

\* the outside world's answer to one run_verification call: the launched
\* command's behaviour, and whether the probe tool (docker, sha256sum) can be run
Probes == [cmd : CmdResults, tool : {"ok", "missing"}]

-----------------------------------------------------------------------------
(* Verification engine: runner.py *)

\* Python truthiness of an Optional[int] and of an Optional[str]
TruthyInt(o) == o # None /\ o[1] # 0
TruthyStr(o) == o # None /\ o[1] # <<>>

\* a check either returns its result dict or raises
Returned(r) == [raised |-> FALSE, value |-> r, msg |-> <<>>]
Raised(msg) == [raised |-> TRUE, value |-> <<>>, msg |-> msg]

\* f"{size_mb:.1f}": tenths of a MB, rounded half to even
SizeTenths(size_bytes) ==
    LET q == (size_bytes * 10) \div BytesPerMB
        r == (size_bytes * 10) % BytesPerMB
    IN  IF 2 * r > BytesPerMB THEN q + 1
        ELSE IF 2 * r = BytesPerMB /\ q % 2 = 1 THEN q + 1
        ELSE q

\* int(step.timeout_seconds * self.config.timeout_multiplier)
Timeout(step) == step.timeout_seconds * config.timeout_multiplier

\* the existence probe of _verify_files: Path.exists() or "docker exec test -f"
Exists(file_path) == fs[file_path] # None

\* a _verify_files that stops at the first missing path
verify_files_first_missing(step, container_id, pr, result) ==
    LET present == {p \in Paths : Exists(p)}
        missing_files == FilterSeq(step.expected_files, Paths \ present)
    IN  Returned([result EXCEPT
            !.passed = (Len(missing_files) = 0),
            !.details = IF missing_files # <<>>
                        THEN <<"Missing files", <<missing_files[1]>>>>
                        ELSE <<"All files found", Len(step.expected_files)>>])

\* _verify_files: collects every missing path, no short-circuit
verify_files(step, container_id, pr, result) ==
    IF container_id # "local" /\ pr.tool = "missing" /\ step.expected_files # <<>>
    THEN Raised(<<"FileNotFoundError", "docker">>)
    ELSE
        LET present == {p \in Paths : Exists(p)}
            missing_files == FilterSeq(step.expected_files, Paths \ present)
        IN  Returned([result EXCEPT
                !.passed = (Len(missing_files) = 0),
                !.details = IF missing_files # <<>>
                            THEN <<"Missing files", missing_files>>
                            ELSE <<"All files found", Len(step.expected_files)>>])

\* _verify_size: the loop over expected_files from position i on
RECURSIVE verify_size_from(_, _, _, _, _)
verify_size_from(step, container_id, pr, result, i) ==
    IF i > Len(step.expected_files)
    THEN Returned([result EXCEPT !.passed = TRUE,
                                 !.details = <<"Size constraints satisfied">>])
    ELSE
        LET file_path == step.expected_files[i]
            f == fs[file_path]
        IN  IF container_id = "local" /\ f = None
            THEN Raised(<<"FileNotFoundError", file_path>>)
            ELSE IF container_id # "local" /\ pr.tool = "missing"
            THEN Raised(<<"FileNotFoundError", "docker">>)
            ELSE IF container_id # "local" /\ f = None
            THEN Returned([result EXCEPT !.details = <<"File not found", file_path>>])
            ELSE
                LET size_bytes == f[1].size
                IN  IF TruthyInt(step.min_size_mb)
                       /\ size_bytes < step.min_size_mb[1] * BytesPerMB
                    THEN Returned([result EXCEPT !.details =
                            <<"below min", file_path, SizeTenths(size_bytes),
                              step.min_size_mb[1]>>])
                    ELSE IF TruthyInt(step.max_size_mb)
                            /\ size_bytes > step.max_size_mb[1] * BytesPerMB
                    THEN Returned([result EXCEPT !.details =
                            <<"above max", file_path, SizeTenths(size_bytes),
                              step.max_size_mb[1]>>])
                    ELSE verify_size_from(step, container_id, pr, result, i + 1)

verify_size(step, container_id, pr, result) ==
    verify_size_from(step, container_id, pr, result, 1)

\* subprocess.run(command, timeout=...): TypeError on a None command, OSError when
\* docker cannot be launched, TimeoutExpired on timeout, else the completed process
RunCommand(step, container_id, pr) ==
    IF step.command = None THEN Raised(<<"TypeError">>)
    ELSE IF container_id # "local" /\ pr.tool = "missing"
    THEN Raised(<<"FileNotFoundError", "docker">>)
    ELSE IF pr.cmd.kind = "timeout"
    THEN Raised(<<"timed out after", step.command[1], Timeout(step)>>)
    ELSE Returned(pr.cmd)

\* _verify_command
verify_command(step, container_id, pr, result) ==
    LET run == RunCommand(step, container_id, pr)
    IN  IF run.raised THEN Raised(run.msg)
        ELSE
            LET cmd_result == run.value
                output == cmd_result.output
            IN  IF TruthyStr(step.expected_output)
                THEN LET passed == Contains(step.expected_output[1], output)
                     IN  Returned([result EXCEPT
                            !.passed = passed,
                            !.details = IF passed
                                        THEN <<"Output contains expected string">>
                                        ELSE <<"Output missing expected string">>])
                ELSE Returned([result EXCEPT
                        !.passed = (cmd_result.returncode = 0),
                        !.details = <<"Command returned", cmd_result.returncode>>])

\* a _verify_boot that does not look at qemu_enabled
verify_boot_always_runs(step, container_id, pr, result) ==
    LET run == RunCommand(step, container_id, pr)
    IN  IF run.raised /\ run.msg[1] = "timed out after"
        THEN Returned([result EXCEPT
                !.passed = FALSE,
                !.details = <<"Boot timed out after", Timeout(step)>>])
        ELSE IF run.raised THEN Raised(run.msg)
        ELSE Returned([result EXCEPT
                !.passed = TruthyStr(step.expected_output)
                           /\ Contains(step.expected_output[1], run.value.output),
                !.details = <<"Boot indicator checked">>])

\* _verify_boot
verify_boot(step, container_id, pr, result) ==
    IF ~config.qemu_enabled
    THEN Returned([result EXCEPT !.details = <<"QEMU verification disabled">>,
                                 !.passed = TRUE])
    ELSE
        LET run == RunCommand(step, container_id, pr)
        IN  IF run.raised /\ run.msg[1] = "timed out after"
            THEN Returned([result EXCEPT
                    !.passed = FALSE,
                    !.details = <<"Boot timed out after", Timeout(step)>>])
            ELSE IF run.raised THEN Raised(run.msg)
            ELSE
                LET output == run.value.output
                IN  IF TruthyStr(step.expected_output)
                       /\ Contains(step.expected_output[1], output)
                    THEN Returned([result EXCEPT
                            !.passed = TRUE,
                            !.details = <<"Boot successful", step.expected_output[1]>>])
                    ELSE Returned([result EXCEPT
                            !.passed = FALSE,
                            !.details = <<"Boot indicator not found in output">>])

\* actual_hash[:16] and expected_output[:16] of the mismatch message
Prefix16(s) == SubSeq(s, 1, IF Len(s) < 16 THEN Len(s) ELSE 16)

\* a _verify_checksum that compares the 16 characters its message displays
RECURSIVE verify_checksum_prefix_from(_, _, _, _, _)
verify_checksum_prefix_from(step, container_id, pr, result, i) ==
    IF i > Len(step.expected_files)
    THEN Returned([result EXCEPT !.passed = TRUE, !.details = <<"Checksum verified">>])
    ELSE
        LET file_path == step.expected_files[i]
            f == fs[file_path]
        IN  IF pr.tool = "missing" THEN Raised(<<"FileNotFoundError", "sha256sum">>)
            ELSE IF f = None
            THEN Returned([result EXCEPT !.details = <<"Failed to hash", file_path>>])
            ELSE IF TruthyStr(step.expected_output)
                    /\ Prefix16(f[1].digest) # Prefix16(step.expected_output[1])
            THEN Returned([result EXCEPT !.details =
                    <<"Checksum mismatch", Prefix16(f[1].digest),
                      Prefix16(step.expected_output[1])>>])
            ELSE verify_checksum_prefix_from(step, container_id, pr, result, i + 1)

verify_checksum_prefix(step, container_id, pr, result) ==
    verify_checksum_prefix_from(step, container_id, pr, result, 1)

\* _verify_checksum: the loop over expected_files from position i on
RECURSIVE verify_checksum_from(_, _, _, _, _)
verify_checksum_from(step, container_id, pr, result, i) ==
    IF i > Len(step.expected_files)
    THEN Returned([result EXCEPT !.passed = TRUE, !.details = <<"Checksum verified">>])
    ELSE
        LET file_path == step.expected_files[i]
            f == fs[file_path]
        IN  IF pr.tool = "missing"
            THEN Raised(<<"FileNotFoundError",
                          IF container_id = "local" THEN "sha256sum" ELSE "docker">>)
            ELSE IF f = None
            THEN Returned([result EXCEPT !.details = <<"Failed to hash", file_path>>])
            ELSE
                LET actual_hash == f[1].digest
                IN  IF TruthyStr(step.expected_output) /\ actual_hash # step.expected_output[1]
                    THEN Returned([result EXCEPT !.details =
                            <<"Checksum mismatch", Prefix16(actual_hash),
                              Prefix16(step.expected_output[1])>>])
                    ELSE verify_checksum_from(step, container_id, pr, result, i + 1)

verify_checksum(step, container_id, pr, result) ==
    verify_checksum_from(step, container_id, pr, result, 1)

\* run_verification lines 108-115: the result dict before the check runs
InitialResult(step) ==
    [type |-> step.type, description |-> step.description,
     passed |-> FALSE, details |-> <<>>, error |-> None]

\* the dispatch inside run_verification's try block
Dispatch(step, container_id, pr, result) ==
    CASE step.type = "file_check"     -> verify_files(step, container_id, pr, result)
      [] step.type = "size_check"     -> verify_size(step, container_id, pr, result)
      [] step.type = "command_output" -> verify_command(step, container_id, pr, result)
      [] step.type = "boot_test"      -> verify_boot(step, container_id, pr, result)
      [] step.type = "checksum"       -> verify_checksum(step, container_id, pr, result)
      [] OTHER                        -> Returned(result)

\* what the check called by run_verification did: None when it returned, else
\* the message of the exception it raised
CheckRaised(step, container_id, pr) ==
    LET r == Dispatch(step, container_id, pr, InitialResult(step))
    IN  IF r.raised THEN Some(r.msg) ELSE None

\* how the probe behind a check failed, if it did: the check raised, the
\* launched command timed out, or sha256sum could not hash a file
ProbeFailure(step, container_id, pr) ==
    LET r == Dispatch(step, container_id, pr, InitialResult(step))
    IN  IF r.raised THEN "exception"
        ELSE IF step.type = "boot_test" /\ config.qemu_enabled /\ pr.cmd.kind = "timeout"
        THEN "timeout"
        ELSE IF step.type = "checksum" /\ r.value.details[1] = "Failed to hash"
        THEN "missing file"
        ELSE "none"

\* run_verification's "except Exception as e" handler
CatchCheck(result, msg) == [result EXCEPT !.error = Some(msg), !.passed = FALSE]

\* a run_verification without the try block: what the check raises leaves it
run_verification_no_except(step, container_id, pr) ==
    Dispatch(step, container_id, pr, InitialResult(step))

\* run_verification: the try block around the dispatch; it returns the outcome
\* dict (duration_seconds is not modelled)
run_verification(step, container_id, pr) ==
    LET r == Dispatch(step, container_id, pr, InitialResult(step))
    IN  IF r.raised THEN Returned(CatchCheck(InitialResult(step), r.msg))
        ELSE Returned(r.value)


-----------------------------------------------------------------------------
(* Environment provisioner: runner.py, setup_environment and cleanup *)

\* container ids "docker run -d" prints, one fresh id per started container
ContainerIds == <<"c1", "c2", "c3", "c4">>

Handles == {ContainerIds[i] : i \in 1..Len(ContainerIds)}

\* what "docker build" and "docker run" can answer: exit status and diagnostics,
\* or the docker binary cannot be launched at all
DockerResults ==
    [launch : {"ok"}, returncode : {0, 1}, stderr : {"diag"}]
    \cup [launch : {"oserror"}, returncode : {1}, stderr : {""}]

\* f"llm-builds-{task.id}-{int(time.time())}": the name given to "docker run"
ContainerName(t, now) == <<"llm-builds", t.id, now>>

\* the record kept of one setup_environment call at second now: the Dockerfile
\* it wrote, the image it built, the container name it asked for, whether build
\* and run were launched, and the handle it returned or the exception it raised
Provision(t, now, built, started, handle, raised) ==
    [dockerfile |-> IF built THEN Some(<<"Dockerfile", t.id>>) ELSE None,
     image |-> IF built THEN Some(<<"llm-builds-linux", t.id, "latest">>) ELSE None,
     name |-> IF started THEN Some(ContainerName(t, now)) ELSE None,
     build_run |-> built, start_run |-> started, handle |-> handle, raised |-> raised]

\* a setup_environment that does not look at the build's exit status
setup_environment_unchecked_build(t, now, build, start, cid) ==
    IF ~config.docker_enabled
    THEN Provision(t, now, FALSE, FALSE, Some("local"), None)
    ELSE IF build.launch = "oserror"
    THEN Provision(t, now, TRUE, FALSE, None, Some(<<"FileNotFoundError", "docker">>))
    ELSE IF start.launch = "oserror"
    THEN Provision(t, now, TRUE, TRUE, None, Some(<<"FileNotFoundError", "docker">>))
    ELSE IF start.returncode # 0
    THEN Provision(t, now, TRUE, TRUE, None,
                   Some(<<"Failed to start container", start.stderr>>))
    ELSE Provision(t, now, TRUE, TRUE, Some(cid), None)

\* setup_environment: what one call at second now does, given docker's answers
\* to build and run and the id a started container gets
setup_environment(t, now, build, start, cid) ==
    IF ~config.docker_enabled
    THEN Provision(t, now, FALSE, FALSE, Some("local"), None)
    ELSE IF build.launch = "oserror"
    THEN Provision(t, now, TRUE, FALSE, None, Some(<<"FileNotFoundError", "docker">>))
    ELSE IF build.returncode # 0
    THEN Provision(t, now, TRUE, FALSE, None,
                   Some(<<"Failed to build Docker image", build.stderr>>))
    ELSE IF start.launch = "oserror"
    THEN Provision(t, now, TRUE, TRUE, None, Some(<<"FileNotFoundError", "docker">>))
    ELSE IF start.returncode # 0
    THEN Provision(t, now, TRUE, TRUE, None,
                   Some(<<"Failed to start container", start.stderr>>))
    ELSE Provision(t, now, TRUE, TRUE, Some(cid), None)

\* handles setup_environment has returned so far
Returned_handles ==
    {provisions[i].outcome.handle[1] :
        i \in {j \in DOMAIN provisions : provisions[j].outcome.handle # None}}

\* the containers started by a successful provision
Provisioned == Returned_handles \ {"local"}

\* last wall-clock second at which a provision is explored
MaxSecond == 1

Seconds == 0..MaxSecond

\* docker refuses to start a container under a name that a container which
\* has not been removed already has
NameInUse(name) ==
    \E i \in DOMAIN provisions :
        /\ provisions[i].outcome.handle # None
        /\ provisions[i].outcome.name = Some(name)
        /\ teardowns[provisions[i].outcome.handle[1]] = 0

\* a caller invokes setup_environment(task) before evaluate_task, at a time
\* that is not earlier than its previous call; nothing in evaluate_task does
SetupEnvironment ==
    /\ pc = "idle"
    /\ Len(provisions) < MaxProvisions
    /\ \E now \in Seconds, build \in DockerResults, start \in DockerResults :
          LET outcome == setup_environment(task, now, build, start,
                                           ContainerIds[Len(provisions) + 1])
          IN  /\ provisions # <<>> => now >= provisions[Len(provisions)].now
              /\ NameInUse(ContainerName(task, now)) => start.returncode # 0
              /\ provisions' = Append(provisions,
                     [outcome |-> outcome, now |-> now,
                      build |-> IF outcome.build_run THEN Some(build) ELSE None,
                      start |-> IF outcome.start_run THEN Some(start) ELSE None])
    /\ UNCHANGED <<config, task, fs, pc, step_iter, verification_results, errors, success,
                   task_result, execLog, teardowns, traceVars, unitVars, hookVars>>

\* cleanup(container_id): whether it issues "docker rm -f"
cleanup_removes(container_id) == container_id # "local" /\ config.docker_enabled

\* a caller invokes cleanup on a handle it holds, once evaluate_task is over;
\* nothing in evaluate_task does
Cleanup ==
    /\ pc \in {"done", "aborted"}
    /\ \E h \in Returned_handles :
          /\ h \in Handles => teardowns[h] < MaxCleanups
          /\ teardowns' = IF cleanup_removes(h)
                          THEN [teardowns EXCEPT ![h] = @ + 1]
                          ELSE teardowns
    /\ UNCHANGED <<config, task, fs, pc, step_iter, verification_results, errors, success,
                   task_result, execLog, provisions, traceVars, unitVars, hookVars>>

-----------------------------------------------------------------------------
(* Orchestrator and aggregator: runner.py, evaluate_task *)

\* the handle evaluate_task hands to run_verification
EvalHandle == "local"

\* evaluate_task, lines 328-333: the accumulators are initialised
EvalStart ==
    /\ pc = "idle"
    /\ pc' = "verifying"
    /\ step_iter' = 0
    /\ verification_results' = <<>>
    /\ errors' = <<>>
    /\ success' = TRUE
    /\ UNCHANGED <<config, task, fs, task_result, execLog, provisions, teardowns, traceVars, unitVars, hookVars>>

\* a loop that stops at the first failing step
NextIterBreakOnFailure(outcome) ==
    IF ~outcome.passed THEN Len(task.verification_steps) ELSE step_iter + 1

\* where the for loop stands after a step with the given outcome
NextIter(outcome) == step_iter + 1

\* a success flag that is overwritten by each step instead of cleared by a failure
NextSuccessLastStep(outcome) == outcome.passed

\* the loop body's update of the success flag
NextSuccess(outcome) == IF ~outcome.passed THEN FALSE ELSE success

\* the loop body's update of the errors list
NextErrors(outcome) ==
    IF ~outcome.passed /\ outcome.error # None
    THEN Append(errors, outcome.error[1])
    ELSE errors

\* evaluate_task, lines 335-342: one iteration of the loop over verification_steps;
\* evaluate_task has no handler of its own, so an exception leaving
\* run_verification would leave evaluate_task too
EvalStep ==
    /\ pc = "verifying"
    /\ step_iter < Len(task.verification_steps)
    /\ \E pr \in Probes :
          LET step == task.verification_steps[step_iter + 1]
              call == run_verification(step, EvalHandle, pr)
              outcome == call.value
          IN  /\ execLog' = Append(execLog,
                                   [step |-> step_iter + 1, container_id |-> EvalHandle,
                                    check |-> CheckRaised(step, EvalHandle, pr),
                                    failure |-> ProbeFailure(step, EvalHandle, pr)])
              /\ IF call.raised
                 THEN /\ pc' = "aborted"
                      /\ UNCHANGED <<verification_results, success, errors, step_iter>>
                 ELSE /\ verification_results' = Append(verification_results, outcome)
                      /\ success' = NextSuccess(outcome)
                      /\ errors' = NextErrors(outcome)
                      /\ step_iter' = NextIter(outcome)
                      /\ pc' = pc
    /\ UNCHANGED <<config, task, fs, task_result, provisions, teardowns, traceVars, unitVars, hookVars>>

\* sum(1 for v in verification_results if v["passed"])
PassedCount(vr) == Cardinality({i \in DOMAIN vr : vr[i].passed})

\* len(verification_results)
TotalCount(vr) == Len(vr)

\* a score computed with floor division
PartialScoreFloorDiv(passed_count, total_count) ==
    IF total_count > 0 THEN [num |-> passed_count \div total_count, den |-> 1]
    ELSE [num |-> 0, den |-> 1]

\* passed_count / total_count if total_count > 0 else 0.0, as an exact fraction
PartialScore(passed_count, total_count) ==
    IF total_count > 0 THEN [num |-> passed_count, den |-> total_count]
    ELSE [num |-> 0, den |-> 1]

\* an artifact list that repeats the declaration without looking at the disk
ArtifactsDeclared(t) == t.success_artifacts

\* the artifact scan: every declared path that exists, in declared order
ArtifactsProduced(t) == FilterSeq(t.success_artifacts, {p \in Paths : Exists(p)})

\* TaskResult(...) as evaluate_task builds it (timestamps and ids of the caller left out)
TaskResult(t) ==
    [task_id |-> t.id,
     success |-> success,
     steps_completed |-> PassedCount(verification_results),
     total_steps_attempted |-> TotalCount(verification_results),
     verification_results |-> verification_results,
     artifacts_produced |-> ArtifactsProduced(t),
     errors |-> errors,
     partial_score |-> PartialScore(PassedCount(verification_results),
                                    TotalCount(verification_results))]

\* evaluate_task, lines 344-372: the loop is over, the result is aggregated and returned
EvalFinish ==
    /\ pc = "verifying"
    /\ step_iter >= Len(task.verification_steps)
    /\ task_result' = Some(TaskResult(task))
    /\ pc' = "done"
    /\ UNCHANGED <<config, task, fs, step_iter, verification_results, errors, success,
                   execLog, provisions, teardowns, traceVars, unitVars, hookVars>>


\* while evaluate_task is between two steps, the build under evaluation (or a
\* command a step launched) creates, rewrites or removes a file
FsChange ==
    /\ pc = "verifying"
    /\ \E p \in Paths, f \in FileStates :
          /\ fs[p] # f
          /\ fs' = [fs EXCEPT ![p] = f]
    /\ UNCHANGED <<config, task, pc, step_iter, verification_results, errors, success,
                   task_result, execLog, provisions, teardowns, traceVars, unitVars, hookVars>>

-----------------------------------------------------------------------------
(* The verification engine called on its own: runner.py, run_verification *)

\* run_verification calls explored on one step
MaxCalls == 2

\* file sizes on both sides of a bound: absent, empty, exactly 2 MB, one byte more
BoundaryFileStates ==
    { None,
      Some([size |-> 0, digest |-> Digest0]),
      Some([size |-> 2 * BytesPerMB, digest |-> Digest1]),
      Some([size |-> 2 * BytesPerMB + 1, digest |-> DigestLong]) }

\* the steps run_verification is called on: every kind, with its fields set,
\* unset, empty and zero
CheckSteps ==
    { VerificationStep("file_check", None, None, <<"f1", "f2">>, None, None, DefaultTimeout),
      VerificationStep("file_check", None, None, <<>>, None, None, DefaultTimeout),
      VerificationStep("size_check", None, None, <<"f1", "f2">>, Some(2), Some(1), DefaultTimeout),
      VerificationStep("size_check", None, None, <<"f1", "f2">>, Some(0), Some(0), DefaultTimeout),
      VerificationStep("size_check", None, None, <<"f1", "f2">>, None, Some(2), DefaultTimeout),
      VerificationStep("size_check", None, None, <<"f1", "f2">>, None, None, DefaultTimeout),
      VerificationStep("size_check", None, None, <<>>, Some(2), Some(1), DefaultTimeout),
      VerificationStep("command_output", Some("cmd"), Some(OkText), <<>>, None, None, 30),
      VerificationStep("command_output", Some("cmd"), None, <<>>, None, None, 30),
      VerificationStep("command_output", Some("cmd"), Some(<<>>), <<>>, None, None, 30),
      VerificationStep("command_output", None, Some(OkText), <<>>, None, None, 30),
      VerificationStep("boot_test", Some("qemu"), Some(OkText), <<>>, None, None, 90),
      VerificationStep("boot_test", Some("qemu"), None, <<>>, None, None, DefaultTimeout),
      VerificationStep("boot_test", None, Some(OkText), <<>>, None, None, 90),
      VerificationStep("checksum", None, Some(Digest1), <<"f1", "f2">>, None, None, DefaultTimeout),
      VerificationStep("checksum", None, None, <<"f1">>, None, None, DefaultTimeout),
      VerificationStep("checksum", None, Some(Digest1), <<>>, None, None, DefaultTimeout),
      VerificationStep("checksum", None, Some(DigestLong), <<"f1", "f2">>, None, None, DefaultTimeout),
      VerificationStep("checksum", None, Some(DigestLongUpper), <<"f1">>, None, None, DefaultTimeout) }

\* the outside world's answer to a call, where a probe tool may also never exit
LiveProbes == [cmd : CmdResults, tool : {"ok", "missing", "hangs"}]

\* the check waits on a process it gave no timeout: "docker exec test/stat" of
\* _verify_files and _verify_size, "sha256sum" of _verify_checksum
WaitsUnbounded(step, container_id) ==
    /\ step.expected_files # <<>>
    /\ \/ step.type \in {"file_check", "size_check"} /\ container_id # "local"
       \/ step.type = "checksum"

\* the call never returns: the process it waits on without a timeout never exits
Hangs(step, container_id, pr) == WaitsUnbounded(step, container_id) /\ pr.tool = "hangs"

\* the check launches step.command: _verify_command always, _verify_boot unless
\* boot verification is disabled; a None command, or a docker that is not
\* installed, raises before anything is launched
LaunchedCommand(step, container_id, pr) ==
    /\ step.type \in {"command_output", "boot_test"}
    /\ step.type = "boot_test" => config.qemu_enabled
    /\ ~RunCommand(step, container_id, pr).raised
       \/ RunCommand(step, container_id, pr).msg[1] = "timed out after"

\* the launched command ran into its timeout
TimedOut(step, container_id, pr) ==
    LaunchedCommand(step, container_id, pr) /\ pr.cmd.kind = "timeout"

\* the files whose size _verify_size asks for, in order, from position i on
RECURSIVE size_probed_from(_, _, _, _)
size_probed_from(step, container_id, pr, i) ==
    IF i > Len(step.expected_files) THEN <<>>
    ELSE
        LET file_path == step.expected_files[i]
            f == fs[file_path]
            violates == \/ f = None
                        \/ container_id # "local" /\ pr.tool = "missing"
                        \/ TruthyInt(step.min_size_mb)
                              /\ f[1].size < step.min_size_mb[1] * BytesPerMB
                        \/ TruthyInt(step.max_size_mb)
                              /\ f[1].size > step.max_size_mb[1] * BytesPerMB
        IN  IF violates THEN <<file_path>>
            ELSE <<file_path>> \o size_probed_from(step, container_id, pr, i + 1)

\* the files _verify_checksum runs sha256sum on, in order, from position i on
RECURSIVE checksum_probed_from(_, _, _, _)
checksum_probed_from(step, container_id, pr, i) ==
    IF i > Len(step.expected_files) THEN <<>>
    ELSE
        LET file_path == step.expected_files[i]
            f == fs[file_path]
            stops == \/ pr.tool = "missing"
                     \/ f = None
                     \/ TruthyStr(step.expected_output)
                           /\ f[1].digest # step.expected_output[1]
        IN  IF stops THEN <<file_path>>
            ELSE <<file_path>> \o checksum_probed_from(step, container_id, pr, i + 1)

\* what is kept of one returned run_verification call
CheckRecord(step, container_id, pr) ==
    [raised |-> run_verification(step, container_id, pr).raised,
     outcome |-> run_verification(step, container_id, pr).value,
     check |-> CheckRaised(step, container_id, pr),
     launched |-> LaunchedCommand(step, container_id, pr),
     timed_out |-> TimedOut(step, container_id, pr),
     cmd |-> IF LaunchedCommand(step, container_id, pr) /\ pr.cmd.kind = "done"
             THEN Some(pr.cmd) ELSE None,
     probed |-> IF step.type = "size_check"
                THEN size_probed_from(step, container_id, pr, 1)
                ELSE IF step.type = "checksum"
                THEN checksum_probed_from(step, container_id, pr, 1)
                ELSE <<>>]

\* run_verification is entered (lines 108-117); the outside world's answer to
\* the probes of this call is fixed
CheckCall ==
    /\ cpc = "idle"
    /\ Len(checkLog) < MaxCalls
    /\ \E pr \in LiveProbes : probe' = Some(pr)
    /\ cpc' = "running"
    /\ UNCHANGED <<check_step, check_cid, checkLog, original, data, restored,
                   evalVars, traceVars, hookVars>>

\* run_verification returns (lines 119-140), which it can only do once the
\* processes it waits on have exited or been killed
CheckReturn ==
    /\ cpc = "running"
    /\ ~Hangs(check_step, check_cid, probe[1])
    /\ checkLog' = Append(checkLog, CheckRecord(check_step, check_cid, probe[1]))
    /\ probe' = None
    /\ cpc' = "idle"
    /\ UNCHANGED <<check_step, check_cid, original, data, restored, evalVars, traceVars, hookVars>>

-----------------------------------------------------------------------------
(* Task serialization: task.py, Task.to_dict and Task.from_dict *)

\* longest verification_steps list of a serialized Task
MaxCodecSteps == 2

\* the enums of task.py: member name -> value
DifficultyValue ==
    [EASY |-> "easy", MEDIUM |-> "medium", HARD |-> "hard", EXTREME |-> "extreme"]

CategoryValue ==
    [FROM_SCRATCH |-> "from_scratch", TOOL_ASSISTED |-> "tool_assisted",
     MODIFICATION |-> "modification", DEBUGGING |-> "debugging",
     CONFIGURATION |-> "configuration"]

VerificationTypeValue ==
    [BOOT_TEST |-> "boot_test", FILE_CHECK |-> "file_check", CHECKSUM |-> "checksum",
     COMMAND_OUTPUT |-> "command_output", SIZE_CHECK |-> "size_check"]

\* Enum(value): the member with that value; ValueError when there is none
EnumByValue(values, v) ==
    IF \E m \in DOMAIN values : values[m] = v
    THEN CHOOSE m \in DOMAIN values : values[m] = v
    ELSE "ValueError"

\* dict.get(key, default)
Get(d, key, default) == IF key \in DOMAIN d THEN d[key] ELSE default

\* the verification steps of serialized tasks: one per kind, optional fields
\* set and unset, lists empty and not, timeout default and not
CodecSteps ==
    { VerificationStep("FILE_CHECK", None, None, <<"f1", "f2">>, None, None, DefaultTimeout),
      VerificationStep("SIZE_CHECK", None, None, <<"f1">>, Some(2), Some(0), DefaultTimeout),
      VerificationStep("COMMAND_OUTPUT", Some("cmd"), Some(<<>>), <<>>, None, None, 30),
      VerificationStep("BOOT_TEST", Some("qemu"), Some(OkText), <<>>, None, None, 90),
      VerificationStep("CHECKSUM", None, Some(Digest1), <<"f2", "f1">>, None, None, 0) }

\* Task(...) with only the required fields given: the dataclass defaults
DefaultTask(category, difficulty, steps) ==
    [id |-> "t1", name |-> "n", description |-> "d", category |-> category,
     difficulty |-> difficulty, instructions |-> "i", expected_steps |-> 5,
     prerequisites |-> <<>>, base_image |-> "ubuntu:22.04", required_packages |-> <<>>,
     required_disk_gb |-> 20, required_ram_gb |-> 4,
     verification_steps |-> steps, success_artifacts |-> <<>>,
     time_limit_minutes |-> 120, expected_build_minutes |-> 30,
     tags |-> <<>>, reference_docs |-> <<>>, common_failure_points |-> <<>>]

\* Task(...) with every field given a value other than its default
FullTask(category, difficulty, steps) ==
    [id |-> "t2", name |-> "", description |-> "d2", category |-> category,
     difficulty |-> difficulty, instructions |-> "", expected_steps |-> 0,
     prerequisites |-> <<"p2", "p1">>, base_image |-> "debian:12",
     required_packages |-> <<"gcc", "make">>,
     required_disk_gb |-> 0, required_ram_gb |-> 8,
     verification_steps |-> steps, success_artifacts |-> <<"f2", "f1">>,
     time_limit_minutes |-> 0, expected_build_minutes |-> 60,
     tags |-> <<"t">>, reference_docs |-> <<"r">>, common_failure_points |-> <<"c2", "c1">>]

\* the Tasks that are serialized
CodecTasks ==
    { DefaultTask(c, d, steps) :
        c \in DOMAIN CategoryValue, d \in DOMAIN DifficultyValue,
        steps \in SeqsUpTo(CodecSteps, MaxCodecSteps) }
    \cup
    { FullTask(c, d, steps) :
        c \in DOMAIN CategoryValue, d \in DOMAIN DifficultyValue,
        steps \in SeqsUpTo(CodecSteps, MaxCodecSteps) }

\* a serialization of a step that leaves timeout_seconds out
step_to_dict_without_timeout(v) ==
    [type |-> VerificationTypeValue[v.type], description |-> v.description,
     command |-> v.command, expected_output |-> v.expected_output,
     expected_files |-> v.expected_files, max_size_mb |-> v.max_size_mb,
     min_size_mb |-> v.min_size_mb]

\* to_dict, lines 105-116: the dictionary of one verification step
step_to_dict(v) ==
    [type |-> VerificationTypeValue[v.type], description |-> v.description,
     command |-> v.command, expected_output |-> v.expected_output,
     expected_files |-> v.expected_files, max_size_mb |-> v.max_size_mb,
     min_size_mb |-> v.min_size_mb, timeout_seconds |-> v.timeout_seconds]

\* Task.to_dict
to_dict(t) ==
    [id |-> t.id, name |-> t.name, description |-> t.description,
     category |-> CategoryValue[t.category],
     difficulty |-> DifficultyValue[t.difficulty],
     instructions |-> t.instructions, expected_steps |-> t.expected_steps,
     prerequisites |-> t.prerequisites, base_image |-> t.base_image,
     required_packages |-> t.required_packages,
     required_disk_gb |-> t.required_disk_gb, required_ram_gb |-> t.required_ram_gb,
     verification_steps |->
        [i \in DOMAIN t.verification_steps |-> step_to_dict(t.verification_steps[i])],
     success_artifacts |-> t.success_artifacts,
     time_limit_minutes |-> t.time_limit_minutes,
     expected_build_minutes |-> t.expected_build_minutes,
     tags |-> t.tags, reference_docs |-> t.reference_docs,
     common_failure_points |-> t.common_failure_points]

\* from_dict, lines 133-145: the VerificationStep built from one dictionary
step_from_dict(v) ==
    [type |-> EnumByValue(VerificationTypeValue, v["type"]),
     description |-> v["description"],
     command |-> Get(v, "command", None),
     expected_output |-> Get(v, "expected_output", None),
     expected_files |-> Get(v, "expected_files", <<>>),
     max_size_mb |-> Get(v, "max_size_mb", None),
     min_size_mb |-> Get(v, "min_size_mb", None),
     timeout_seconds |-> Get(v, "timeout_seconds", DefaultTimeout)]

\* Task.from_dict
from_dict(d) ==
    LET steps == Get(d, "verification_steps", <<>>)
    IN  [id |-> d["id"], name |-> d["name"], description |-> d["description"],
         category |-> EnumByValue(CategoryValue, d["category"]),
         difficulty |-> EnumByValue(DifficultyValue, d["difficulty"]),
         instructions |-> d["instructions"], expected_steps |-> d["expected_steps"],
         prerequisites |-> Get(d, "prerequisites", <<>>),
         base_image |-> Get(d, "base_image", "ubuntu:22.04"),
         required_packages |-> Get(d, "required_packages", <<>>),
         required_disk_gb |-> Get(d, "required_disk_gb", 20),
         required_ram_gb |-> Get(d, "required_ram_gb", 4),
         verification_steps |-> [i \in DOMAIN steps |-> step_from_dict(steps[i])],
         success_artifacts |-> Get(d, "success_artifacts", <<>>),
         time_limit_minutes |-> Get(d, "time_limit_minutes", 120),
         expected_build_minutes |-> Get(d, "expected_build_minutes", 30),
         tags |-> Get(d, "tags", <<>>),
         reference_docs |-> Get(d, "reference_docs", <<>>),
         common_failure_points |-> Get(d, "common_failure_points", <<>>)]

\* t.to_dict() is called
ToDict ==
    /\ data = None
    /\ data' = Some(to_dict(original))
    /\ UNCHANGED <<original, restored, check_step, check_cid, cpc, probe, checkLog,
                   evalVars, traceVars, hookVars>>

\* Task.from_dict is called on the dictionary to_dict returned
FromDict ==
    /\ data # None
    /\ restored = None
    /\ restored' = Some(from_dict(data[1]))
    /\ UNCHANGED <<original, data, check_step, check_cid, cpc, probe, checkLog,
                   evalVars, traceVars, hookVars>>

-----------------------------------------------------------------------------
(* Trace collector: benchmark_runner.py *)

\* keys of BENCHMARK_TASKS in insertion order; each entry's "id" equals its key
BENCHMARK_TASKS == <<"alpine-minimal", "alpine-boot-test", "debug-wrong-arch">>

\* str(tool_output)[:5000]
ToolOutputLimit == 5000
\* block.get("text", "")[:2000]
FinalOutputLimit == 2000

Truncate(s, n) == SubSeq(s, 1, IF Len(s) < n THEN Len(s) ELSE n)

HiText == <<"h", "i">>
YoText == <<"y", "o">>

\* the message variants the agent runtime streams
SdkMessages ==
    { [kind |-> "AssistantMessage",
       content |-> << [block |-> "ToolUseBlock", text |-> <<>>, name |-> "Bash"],
                      [block |-> "TextBlock", text |-> HiText, name |-> ""] >>],
      [kind |-> "AssistantMessage",
       content |-> << [block |-> "TextBlock", text |-> HiText, name |-> ""],
                      [block |-> "TextBlock", text |-> YoText, name |-> ""] >>],
      [kind |-> "UserMessage", content |-> <<>>],
      [kind |-> "ResultMessage", content |-> <<>>] }

\* the exceptions the agent runtime raises: all derive from Exception
AgentExceptions ==
    { [type |-> "ProcessError", message |-> "exit 1"] }

\* str(tool_response) of the tool calls explored
ToolOutputs == { <<"o", "k">>, <<"E", "r", "r", "o", "r">> }

\* str.lower(), on the characters the explored outputs use
LowerChar(c) == CASE c = "E" -> "e" [] c = "R" -> "r" [] c = "O" -> "o" [] OTHER -> c
Lower(s) == [i \in DOMAIN s |-> LowerChar(s[i])]

ErrorText == <<"e", "r", "r", "o", "r">>

\* _serialize_message: the content list of an assistant message, block by block
RECURSIVE SerializeBlocks(_)
SerializeBlocks(blocks) ==
    IF blocks = <<>> THEN <<>>
    ELSE LET b == Head(blocks)
             rest == SerializeBlocks(Tail(blocks))
         IN  IF b.block = "TextBlock"
             THEN <<[type |-> "text", text |-> b.text, name |-> ""]>> \o rest
             ELSE IF b.block = "ToolUseBlock"
             THEN <<[type |-> "tool_use", text |-> <<>>, name |-> b.name]>> \o rest
             ELSE rest

\* _serialize_message
serialize_message(message) ==
    IF message.kind = "AssistantMessage"
    THEN [role |-> "assistant", content |-> SerializeBlocks(message.content)]
    ELSE IF message.kind = "UserMessage"
    THEN [role |-> "user", content |-> <<>>]
    ELSE [role |-> "unknown", content |-> <<>>]

\* the inner loop of _extract_final_output: the first text block of one message
RECURSIVE FirstText(_)
FirstText(content) ==
    IF content = <<>> THEN None
    ELSE IF Head(content).type = "text"
    THEN Some(Truncate(Head(content).text, FinalOutputLimit))
    ELSE FirstText(Tail(content))

\* _extract_final_output: scans the messages backward
RECURSIVE extract_final_output(_)
extract_final_output(msgs) ==
    IF msgs = <<>> THEN <<>>
    ELSE LET msg == msgs[Len(msgs)]
             found == IF msg.role = "assistant" THEN FirstText(msg.content) ELSE None
         IN  IF found # None THEN found[1]
             ELSE extract_final_output(SubSeq(msgs, 1, Len(msgs) - 1))

\* datetime.now().strftime('%Y%m%d-%H%M%S'): the clock cut to whole seconds
Strftime(now) == now \div TicksPerSecond

\* f"{task_id}-{strftime}"
TraceId(task_id, now) == <<task_id, Strftime(now)>>

\* AgentTrace(trace_id=..., task_id=..., timestamp=...) with the dataclass defaults
AgentTrace(tid, task_id, now) ==
    [trace_id |-> tid, task_id |-> task_id, timestamp |-> now,
     success |-> FALSE, total_duration_seconds |-> 0, total_tool_calls |-> 0,
     tool_calls |-> <<>>, messages |-> <<>>, errors |-> <<>>, final_output |-> <<>>]

\* BenchmarkRunner() in run_benchmark, then run_task lines 161-176
RunTaskStart ==
    /\ tpc = "idle"
    /\ taskIdx <= Len(BENCHMARK_TASKS)
    /\ LET task_id == BENCHMARK_TASKS[taskIdx]
           tid == TraceId(task_id, clock)
       IN  /\ trace_id' = tid
           /\ current_trace' = Some(AgentTrace(tid, task_id, clock))
    /\ tool_start_time' = None
    /\ messages' = <<>>
    /\ start_time' = clock
    /\ tpc' = "running"
    /\ UNCHANGED <<clock, taskIdx, files, writes, results, propagated, events, runLog, evalVars, unitVars, hookVars>>

\* the wall clock advances
Tick ==
    /\ tpc = "running"
    /\ events < MaxEvents
    /\ clock' = clock + 1
    /\ events' = events + 1
    /\ UNCHANGED <<tpc, taskIdx, current_trace, tool_start_time, trace_id, messages,
                   start_time, files, writes, results, propagated, runLog, evalVars, unitVars, hookVars>>

\* run_task lines 202-203: the stream delivers a message, which is serialized and kept
AgentMessage ==
    /\ tpc = "running"
    /\ events < MaxEvents
    /\ \E message \in SdkMessages :
          messages' = Append(messages, serialize_message(message))
    /\ events' = events + 1
    /\ UNCHANGED <<tpc, clock, taskIdx, current_trace, tool_start_time, trace_id,
                   start_time, files, writes, results, propagated, runLog, evalVars, unitVars, hookVars>>

\* _pre_tool_hook
PreToolHook ==
    /\ tpc = "running"
    /\ events < MaxEvents
    /\ tool_start_time' = Some(clock)
    /\ events' = events + 1
    /\ UNCHANGED <<tpc, clock, taskIdx, current_trace, trace_id, messages,
                   start_time, files, writes, results, propagated, runLog, evalVars, unitVars, hookVars>>

\* a ToolCall whose success flag is computed on the stored, truncated output
ToolCallClassifiesStored(tool_name, tool_input, tool_output, duration, now) ==
    [tool_name |-> tool_name,
     tool_input |-> tool_input,
     tool_output |-> Truncate(tool_output, ToolOutputLimit),
     duration_seconds |-> duration,
     timestamp |-> now,
     success |-> ~Contains(ErrorText, Lower(Truncate(tool_output, ToolOutputLimit)))]

\* ToolCall(...) as _post_tool_hook builds it
ToolCall(tool_name, tool_input, tool_output, duration, now) ==
    [tool_name |-> tool_name,
     tool_input |-> tool_input,
     tool_output |-> Truncate(tool_output, ToolOutputLimit),
     duration_seconds |-> duration,
     timestamp |-> now,
     success |-> ~Contains(ErrorText, Lower(tool_output))]

\* a hook that appends the call and leaves the count alone
RecordToolCallNoCount(trace, call) == [trace EXCEPT !.tool_calls = Append(@, call)]

\* _post_tool_hook's effect on the active trace
RecordToolCall(trace, call) ==
    [trace EXCEPT !.tool_calls = Append(@, call), !.total_tool_calls = @ + 1]

\* _post_tool_hook (time.time() is never 0.0, so the start time is truthy iff set)
PostToolHook ==
    /\ tpc = "running"
    /\ events < MaxEvents
    /\ \E tool_name \in {"Bash"}, tool_input \in {<<"l", "s">>}, tool_output \in ToolOutputs :
          LET duration == IF tool_start_time # None THEN clock - tool_start_time[1] ELSE 0
          IN  current_trace' =
                  IF current_trace # None
                  THEN Some(RecordToolCall(current_trace[1],
                                           ToolCall(tool_name, tool_input, tool_output, duration,
                                                    clock)))
                  ELSE current_trace
    /\ events' = events + 1
    /\ UNCHANGED <<tpc, clock, taskIdx, tool_start_time, trace_id, messages,
                   start_time, files, writes, results, propagated, runLog, evalVars, unitVars, hookVars>>

\* a handler written for one exception class only
CatchesValueErrorOnly(e) == e.type = "ValueError"

\* "except Exception as e": the exception classes the handler catches
Catches(e) == e.type \in {x.type : x \in AgentExceptions}

\* a handler that marks the failure and records no error
ExceptHandlerNoRecord(trace, e, now) == [trace EXCEPT !.success = FALSE]

\* run_task lines 216-221: the except handler
ExceptHandler(trace, e, now) ==
    [trace EXCEPT !.success = FALSE,
                  !.errors = Append(@, [type |-> e.type, message |-> e.message,
                                        timestamp |-> now])]

\* run_task lines 211-213: the stream ended normally
CompleteRun(trace, msgs) ==
    [trace EXCEPT !.messages = msgs, !.success = TRUE,
                  !.final_output = extract_final_output(msgs)]

\* a finally clause that stamps nothing
FinallyNoStamp(trace, started, now) == trace

\* run_task line 225: the finally clause
Finally(trace, started, now) == [trace EXCEPT !.total_duration_seconds = now - started]

\* AgentTrace.to_json: every field of the dataclass, by name
to_json(trace) ==
    [trace_id |-> trace.trace_id, task_id |-> trace.task_id, timestamp |-> trace.timestamp,
     success |-> trace.success, total_duration_seconds |-> trace.total_duration_seconds,
     total_tool_calls |-> trace.total_tool_calls, tool_calls |-> trace.tool_calls,
     messages |-> trace.messages, errors |-> trace.errors,
     final_output |-> trace.final_output]

\* run_task lines 228-230: the names written after this save, one entry per write
SaveWrites(name) == Append(writes, name)

\* run_task lines 228-230: the trace directory after this save
SaveFiles(name, trace) == (name :> to_json(trace)) @@ files

\* run_task lines 227-239 and run_all_benchmarks lines 390-391: the trace is saved
\* and returned, and the caller's loop appends it and moves to the next task
SaveAndReturn(trace) ==
    /\ current_trace' = Some(trace)
    /\ files' = SaveFiles(trace_id, trace)
    /\ writes' = SaveWrites(trace_id)
    /\ results' = Append(results, trace)
    /\ taskIdx' = taskIdx + 1
    /\ tpc' = "idle"
    /\ UNCHANGED propagated

\* the agent stream raises: except handler, finally clause, save, return;
\* an exception the handler does not catch leaves run_task and run_all_benchmarks
AgentRaise ==
    /\ tpc = "running"
    /\ \E e \in AgentExceptions :
          /\ runLog' = Append(runLog, Some(e))
          /\ IF Catches(e)
             THEN SaveAndReturn(Finally(ExceptHandler(current_trace[1], e, clock),
                                        start_time, clock))
             ELSE /\ current_trace' = Some(Finally(current_trace[1], start_time, clock))
                  /\ propagated' = TRUE
                  /\ tpc' = "aborted"
                  /\ UNCHANGED <<files, writes, results, taskIdx>>
    /\ UNCHANGED <<clock, tool_start_time, trace_id, messages, start_time, events, evalVars, unitVars, hookVars>>

\* the agent stream ends: lines 211-213, finally clause, save, return
AgentComplete ==
    /\ tpc = "running"
    /\ SaveAndReturn(Finally(CompleteRun(current_trace[1], messages), start_time, clock))
    /\ runLog' = Append(runLog, None)
    /\ UNCHANGED <<clock, tool_start_time, trace_id, messages, start_time, events, evalVars, unitVars, hookVars>>

\* run_benchmark calls explored when callers start runs of their own choice
MaxRuns == 2

\* run_benchmark(task_name) called by any caller, for any task of the registry,
\* at any time after the previous run ended: a new BenchmarkRunner, then
\* run_task lines 161-176
RunBenchmark ==
    /\ tpc = "idle"
    /\ taskIdx <= MaxRuns
    /\ \E i \in DOMAIN BENCHMARK_TASKS :
          LET task_id == BENCHMARK_TASKS[i]
              tid == TraceId(task_id, clock)
          IN  /\ trace_id' = tid
              /\ current_trace' = Some(AgentTrace(tid, task_id, clock))
    /\ tool_start_time' = None
    /\ messages' = <<>>
    /\ start_time' = clock
    /\ tpc' = "running"
    /\ UNCHANGED <<clock, taskIdx, files, writes, results, propagated, events, runLog,
                   evalVars, unitVars, hookVars>>

\* the wall clock advances between two runs
Wait ==
    /\ tpc = "idle"
    /\ events < MaxEvents
    /\ clock' = clock + 1
    /\ events' = events + 1
    /\ UNCHANGED <<tpc, taskIdx, current_trace, tool_start_time, trace_id, messages,
                   start_time, files, writes, results, propagated, runLog, evalVars, unitVars, hookVars>>

\* run_all_benchmarks line 392: the loop is over
RunAllReturn ==
    /\ tpc = "idle"
    /\ taskIdx > Len(BENCHMARK_TASKS)
    /\ tpc' = "finished"
    /\ UNCHANGED <<clock, taskIdx, current_trace, tool_start_time, trace_id, messages,
                   start_time, files, writes, results, propagated, events, runLog, evalVars, unitVars, hookVars>>

-----------------------------------------------------------------------------
(* One BenchmarkRunner on which two run_task calls are made *)

\* the two run_task calls made on the instance
Callers == {1, 2}
\* tool uses per run
MaxTools == 2
\* messages, hook firings and clock ticks explored, over both runs
MaxHookEvents == 4
\* hook invocations explored before the first run_task call
MaxEarlyHooks == 1

\* the tasks the calls are made for: the first call's task, and for the
\* other call the same task or another one
SharedTasks(r) == IF r = 1 THEN {BENCHMARK_TASKS[1]} ELSE {BENCHMARK_TASKS[1], BENCHMARK_TASKS[2]}
\* the messages the streams deliver
SharedMessages == {m \in SdkMessages : m.kind = "ResultMessage"}
\* str(tool_response) of the tool uses
SharedOutputs == {<<"o", "k">>}

\* a run_task call that has not been made: its position and its locals
\* (trace_id, start_time, messages), the trace it creates (alloc), the tool
\* uses its stream has begun and ended, the trace it returns (ret), the JSON
\* it writes (saved), and whether the other call was in progress at any
\* moment of this one (overlapped)
NotCalled ==
    [rpc |-> "idle", task_id |-> "", trace_id |-> <<>>, alloc |-> 0, started |-> 0,
     msgs |-> <<>>, pre_fired |-> 0, post_fired |-> {}, ret |-> 0, saved |-> None,
     overlapped |-> FALSE]

Running(r) == runs[r].rpc = "running"

\* an assignment that keeps the trace already held
SetCurrentOnce(held, ref) == IF held = None THEN Some(ref) ELSE held

\* run_task line 163: self._current_trace = AgentTrace(...)
SetCurrent(held, ref) == Some(ref)

\* run_task lines 161-200, up to the first await on the stream
SharedRunStart ==
    \E r \in Callers :
        /\ runs[r].rpc = "idle"
        /\ \E task_id \in SharedTasks(r) :
              LET tid == TraceId(task_id, clock)
                  ref == Len(heap) + 1
                  others == \E o \in Callers \ {r} : Running(o)
              IN  /\ heap' = Append(heap, AgentTrace(tid, task_id, clock))
                  /\ cur' = SetCurrent(cur, ref)
                  /\ runs' = [o \in Callers |->
                                IF o = r
                                THEN [runs[r] EXCEPT !.rpc = "running", !.task_id = task_id,
                                                     !.trace_id = tid, !.alloc = ref,
                                                     !.started = clock, !.overlapped = others]
                                ELSE IF Running(o)
                                THEN [runs[o] EXCEPT !.overlapped = TRUE]
                                ELSE runs[o]]
        /\ UNCHANGED <<hookLog, clock, events, files, writes, tool_start_time,
                       tpc, taskIdx, current_trace, trace_id, messages, start_time,
                   results, propagated, runLog, tool_response, tool_call, evalVars, unitVars>>

\* the wall clock advances while a call is in progress
SharedTick ==
    /\ \E r \in Callers : Running(r)
    /\ events < MaxHookEvents
    /\ clock' = clock + 1
    /\ events' = events + 1
    /\ UNCHANGED <<heap, cur, runs, hookLog, files, writes, tool_start_time,
                   tpc, taskIdx, current_trace, trace_id, messages, start_time,
                   results, propagated, runLog, tool_response, tool_call, evalVars, unitVars>>

\* run_task lines 202-203 in one of the calls
SharedMessage ==
    \E r \in Callers :
        /\ Running(r)
        /\ events < MaxHookEvents
        /\ \E message \in SharedMessages :
              runs' = [runs EXCEPT ![r].msgs = Append(@, serialize_message(message))]
        /\ events' = events + 1
        /\ UNCHANGED <<heap, cur, hookLog, clock, files, writes, tool_start_time,
                       tpc, taskIdx, current_trace, trace_id, messages, start_time,
                   results, propagated, runLog, tool_response, tool_call, evalVars, unitVars>>

\* _pre_tool_hook, fired by the stream of one of the calls for its next tool use
SharedPreHook ==
    \E r \in Callers :
        /\ Running(r)
        /\ events < MaxHookEvents
        /\ runs[r].pre_fired < MaxTools
        /\ tool_start_time' = Some(clock)
        /\ runs' = [runs EXCEPT ![r].pre_fired = @ + 1]
        /\ hookLog' = Append(hookLog, [hook |-> "pre", id |-> <<r, runs[r].pre_fired + 1>>,
                                       at |-> clock, duration |-> 0, target |-> None])
        /\ events' = events + 1
        /\ UNCHANGED <<heap, cur, clock, files, writes,
                       tpc, taskIdx, current_trace, trace_id, messages, start_time,
                   results, propagated, runLog, tool_response, tool_call, evalVars, unitVars>>

\* _post_tool_hook line 111
HookDuration == IF tool_start_time # None THEN clock - tool_start_time[1] ELSE 0

\* _post_tool_hook lines 114-124 for the tool use id
HookRecord(id, tool_output) ==
    IF cur # None
    THEN [heap EXCEPT ![cur[1]] =
              RecordToolCall(@, ToolCall("Bash", id, tool_output, HookDuration, clock))]
    ELSE heap

\* _post_tool_hook, fired by the stream of one of the calls for a tool use it began
SharedPostHook ==
    \E r \in Callers :
        /\ Running(r)
        /\ events < MaxHookEvents
        /\ \E n \in (1..runs[r].pre_fired) \ runs[r].post_fired, tool_output \in SharedOutputs :
              /\ heap' = HookRecord(<<r, n>>, tool_output)
              /\ runs' = [runs EXCEPT ![r].post_fired = @ \cup {n}]
              /\ hookLog' = Append(hookLog, [hook |-> "post", id |-> <<r, n>>, at |-> clock,
                                             duration |-> HookDuration, target |-> cur])
        /\ events' = events + 1
        /\ UNCHANGED <<cur, clock, files, writes, tool_start_time,
                       tpc, taskIdx, current_trace, trace_id, messages, start_time,
                   results, propagated, runLog, tool_response, tool_call, evalVars, unitVars>>

\* _post_tool_hook called on the instance before any run_task call
PostHookBeforeRun ==
    /\ cur = None
    /\ Len(hookLog) < MaxEarlyHooks
    /\ \E tool_output \in SharedOutputs :
          /\ heap' = HookRecord(<<0, 1>>, tool_output)
          /\ hookLog' = Append(hookLog, [hook |-> "post", id |-> <<0, 1>>, at |-> clock,
                                         duration |-> HookDuration, target |-> cur])
    /\ UNCHANGED <<cur, runs, clock, events, files, writes, tool_start_time,
                   tpc, taskIdx, current_trace, trace_id, messages, start_time,
                   results, propagated, runLog, tool_response, tool_call, evalVars, unitVars>>

\* run_task lines 224-239 of call r: the trace self._current_trace refers to
\* is stamped, written under the call's local trace_id, and returned
SharedSaveAndReturn(r, ended) ==
    /\ heap' = [heap EXCEPT ![cur[1]] = ended]
    /\ files' = SaveFiles(runs[r].trace_id, ended)
    /\ writes' = SaveWrites(runs[r].trace_id)
    /\ runs' = [runs EXCEPT ![r].rpc = "returned", ![r].ret = cur[1],
                            ![r].saved = Some(to_json(ended))]

\* the stream of one of the calls raises: lines 216-221, then 224-239
SharedRaise ==
    \E r \in Callers :
        /\ Running(r)
        /\ \E e \in AgentExceptions :
              SharedSaveAndReturn(r, Finally(ExceptHandler(heap[cur[1]], e, clock),
                                             runs[r].started, clock))
        /\ UNCHANGED <<cur, hookLog, clock, events, tool_start_time,
                       tpc, taskIdx, current_trace, trace_id, messages, start_time,
                   results, propagated, runLog, tool_response, tool_call, evalVars, unitVars>>

\* the stream of one of the calls ends: lines 211-213, then 224-239
SharedComplete ==
    \E r \in Callers :
        /\ Running(r)
        /\ SharedSaveAndReturn(r, Finally(CompleteRun(heap[cur[1]], runs[r].msgs),
                                          runs[r].started, clock))
        /\ UNCHANGED <<cur, hookLog, clock, events, tool_start_time,
                       tpc, taskIdx, current_trace, trace_id, messages, start_time,
                   results, propagated, runLog, tool_response, tool_call, evalVars, unitVars>>

-----------------------------------------------------------------------------
(* _post_tool_hook on outputs around the truncation limit *)

\* filler lengths explored: a few characters, and up to PadSlack characters
\* short of ToolOutputLimit through one past it
PadShort == 2
PadSlack == 6
PadLengths == (0..PadShort) \cup ((ToolOutputLimit - PadSlack)..(ToolOutputLimit + 1))

\* what follows the filler
OutputWords ==
    { <<>>, <<"o", "k">>, <<"e", "r", "r">>, <<"e", "r", "r", "o", "r">>,
      <<"E", "r", "r", "o", "r">>, <<"E", "R", "R", "O", "R">>, <<"e", "R", "r", "O", "r">> }

\* str(tool_response) of the invocations explored
LongOutputs == { [i \in 1..n |-> "x"] \o w : n \in PadLengths, w \in OutputWords }

\* _post_tool_hook lines 116-123: the ToolCall is built from the tool's response
BuildToolCall ==
    /\ tool_call = None
    /\ tool_call' = Some(ToolCall("Bash", <<"l", "s">>, tool_response, 0, clock))
    /\ UNCHANGED <<heap, cur, runs, hookLog, tool_response, evalVars, traceVars, unitVars>>

-----------------------------------------------------------------------------
(* Specifications *)

\* TaskRunner before evaluate_task is called
EvalIdle ==
    /\ pc = "idle"
    /\ step_iter = 0
    /\ verification_results = <<>>
    /\ errors = <<>>
    /\ success = TRUE
    /\ task_result = None
    /\ execLog = <<>>
    /\ provisions = <<>>
    /\ teardowns = [h \in Handles |-> 0]

\* BenchmarkRunner.__init__ and the start of run_all_benchmarks
TraceIdle ==
    /\ tpc = "idle"
    /\ clock = 0
    /\ taskIdx = 1
    /\ current_trace = None
    /\ tool_start_time = None
    /\ trace_id = <<>>
    /\ messages = <<>>
    /\ start_time = 0
    /\ files = <<>>
    /\ writes = <<>>
    /\ results = <<>>
    /\ propagated = FALSE
    /\ events = 0
    /\ runLog = <<>>

\* no shared BenchmarkRunner exists and no hook is invoked on its own
HookIdle ==
    /\ heap = <<>>
    /\ cur = None
    /\ runs = <<>>
    /\ hookLog = <<>>
    /\ tool_response = <<>>
    /\ tool_call = None

\* no run_verification call of its own is in progress
CheckIdle ==
    /\ check_step = VerificationStep("file_check", None, None, <<>>, None, None, DefaultTimeout)
    /\ check_cid = "local"
    /\ cpc = "idle"
    /\ probe = None
    /\ checkLog = <<>>

\* no Task is being serialized
CodecIdle ==
    /\ original = <<>>
    /\ data = None
    /\ restored = None

\* the evaluation flow: any configuration, task and filesystem
Init ==
    /\ config \in Configs
    /\ task \in Tasks
    /\ fs \in FileSystems
    /\ EvalIdle
    /\ TraceIdle
    /\ HookIdle
    /\ CheckIdle
    /\ CodecIdle

Next ==
    \/ EvalStart
    \/ EvalStep
    \/ EvalFinish

Spec == Init /\ [][Next]_vars

\* the evaluation flow together with its callers' use of the provisioner
InitProv ==
    /\ config \in {c \in Configs : c.qemu_enabled}
    /\ task \in ProvTasks
    /\ fs \in {[p \in Paths |-> IF p = "f1" THEN f ELSE None] :
                    f \in {None, Some([size |-> 2 * BytesPerMB, digest |-> Digest1])}}
    /\ EvalIdle
    /\ TraceIdle
    /\ HookIdle
    /\ CheckIdle
    /\ CodecIdle

NextProv ==
    \/ SetupEnvironment
    \/ Cleanup
    \/ EvalStart
    \/ EvalStep
    \/ EvalFinish

SpecProv == InitProv /\ [][NextProv]_vars

\* run_verification on any step, against the local filesystem or a container
InitCheck ==
    /\ config \in {c \in Configs : c.docker_enabled}
    /\ task = [id |-> "t1", verification_steps |-> <<>>, success_artifacts |-> <<>>]
    /\ fs \in [Paths -> BoundaryFileStates]
    /\ EvalIdle
    /\ TraceIdle
    /\ HookIdle
    /\ check_step \in CheckSteps
    /\ check_cid \in {"local", ContainerIds[1]}
    /\ cpc = "idle"
    /\ probe = None
    /\ checkLog = <<>>
    /\ CodecIdle

NextCheck ==
    \/ CheckCall
    \/ CheckReturn

SpecCheck == InitCheck /\ [][NextCheck]_vars

\* run_verification under a scheduler that lets a call that can return, return
SpecCheckLive == SpecCheck /\ WF_vars(CheckReturn)

\* the trace-collection flow: run_all_benchmarks on a fresh process
InitTrace ==
    /\ config = [docker_enabled |-> TRUE, qemu_enabled |-> TRUE, timeout_multiplier |-> 1]
    /\ task = [id |-> "t1", verification_steps |-> <<>>, success_artifacts |-> <<>>]
    /\ fs = [p \in Paths |-> None]
    /\ EvalIdle
    /\ TraceIdle
    /\ HookIdle
    /\ CheckIdle
    /\ CodecIdle

NextTrace ==
    \/ RunTaskStart
    \/ Tick
    \/ AgentMessage
    \/ PreToolHook
    \/ PostToolHook
    \/ AgentRaise
    \/ AgentComplete
    \/ RunAllReturn

SpecTrace == InitTrace /\ [][NextTrace]_vars

\* the trace-collection flow when callers invoke run_benchmark one run after
\* another, for tasks and at times of their choice
NextRuns ==
    \/ RunBenchmark
    \/ Wait
    \/ Tick
    \/ AgentMessage
    \/ PreToolHook
    \/ PostToolHook
    \/ AgentRaise
    \/ AgentComplete

SpecRuns == InitTrace /\ [][NextRuns]_vars

\* one BenchmarkRunner, on which callers make two run_task calls at any
\* times, one after the other or overlapping
InitShared ==
    /\ config = [docker_enabled |-> TRUE, qemu_enabled |-> TRUE, timeout_multiplier |-> 1]
    /\ task = [id |-> "t1", verification_steps |-> <<>>, success_artifacts |-> <<>>]
    /\ fs = [p \in Paths |-> None]
    /\ EvalIdle
    /\ TraceIdle
    /\ CheckIdle
    /\ CodecIdle
    /\ heap = <<>>
    /\ cur = None
    /\ runs = [r \in Callers |-> NotCalled]
    /\ hookLog = <<>>
    /\ tool_response = <<>>
    /\ tool_call = None

NextShared ==
    \/ SharedRunStart
    \/ SharedTick
    \/ SharedMessage
    \/ SharedPreHook
    \/ SharedPostHook
    \/ PostHookBeforeRun
    \/ SharedRaise
    \/ SharedComplete

SpecShared == InitShared /\ [][NextShared]_vars

\* _post_tool_hook on its own, for any response around the truncation limit
InitTool ==
    /\ config = [docker_enabled |-> TRUE, qemu_enabled |-> TRUE, timeout_multiplier |-> 1]
    /\ task = [id |-> "t1", verification_steps |-> <<>>, success_artifacts |-> <<>>]
    /\ fs = [p \in Paths |-> None]
    /\ EvalIdle
    /\ TraceIdle
    /\ CheckIdle
    /\ CodecIdle
    /\ heap = <<>>
    /\ cur = None
    /\ runs = <<>>
    /\ hookLog = <<>>
    /\ tool_response \in LongOutputs
    /\ tool_call = None

NextTool == BuildToolCall

SpecTool == InitTool /\ [][NextTool]_vars

\* the tasks evaluated while the filesystem changes: artifacts declared in
\* either order or not at all
ArtTasks ==
    [id : {"t1"},
     verification_steps : SeqsUpTo(ProvStepPool, MaxSteps),
     success_artifacts : {<<>>, <<"f1", "f2">>, <<"f2", "f1">>}]

\* the evaluation flow on a filesystem that changes under it
InitArt ==
    /\ config = [docker_enabled |-> TRUE, qemu_enabled |-> TRUE, timeout_multiplier |-> 1]
    /\ task \in ArtTasks
    /\ fs \in FileSystems
    /\ EvalIdle
    /\ TraceIdle
    /\ HookIdle
    /\ CheckIdle
    /\ CodecIdle

NextArt ==
    \/ EvalStart
    \/ EvalStep
    \/ FsChange
    \/ EvalFinish

SpecArt == InitArt /\ [][NextArt]_vars

\* the steps of tasks that check files: FILE_CHECK on one and on two paths,
\* SIZE_CHECK on one path
FileStepPool ==
    { VerificationStep("file_check", None, None, <<"f1">>, None, None, DefaultTimeout),
      VerificationStep("file_check", None, None, <<"f2", "f1">>, None, None, DefaultTimeout),
      VerificationStep("size_check", None, None, <<"f1">>, Some(2), Some(1), DefaultTimeout) }

FileTasks ==
    [id : {"t1"},
     verification_steps : SeqsUpTo(FileStepPool, MaxSteps),
     success_artifacts : {<<"f1">>}]

\* the evaluation flow on tasks that check files
InitFiles ==
    /\ config \in Configs
    /\ task \in FileTasks
    /\ fs \in FileSystems
    /\ EvalIdle
    /\ TraceIdle
    /\ HookIdle
    /\ CheckIdle
    /\ CodecIdle

SpecFiles == InitFiles /\ [][Next]_vars

\* a Task is serialized and read back
InitCodec ==
    /\ config = [docker_enabled |-> TRUE, qemu_enabled |-> TRUE, timeout_multiplier |-> 1]
    /\ task = [id |-> "t1", verification_steps |-> <<>>, success_artifacts |-> <<>>]
    /\ fs = [p \in Paths |-> None]
    /\ EvalIdle
    /\ TraceIdle
    /\ HookIdle
    /\ CheckIdle
    /\ original \in CodecTasks
    /\ data = None
    /\ restored = None

NextCodec ==
    \/ ToDict
    \/ FromDict

SpecCodec == InitCodec /\ [][NextCodec]_vars

-----------------------------------------------------------------------------
(* Claims *)

\* the TaskResult evaluate_task returned
Res == task_result[1]

\* the indices of the outcomes that passed
PassedIdx(vr) == {i \in DOMAIN vr : vr[i].passed}

\* C1: an evaluation of a task with an empty verification_steps list returns
\* success = false and partial_score = 0.0.
C1_EmptyTaskFails ==
    (pc = "done" /\ task.verification_steps = <<>>)
        => (Res.success = FALSE /\ Res.partial_score.num = 0)

\* C2: when evaluate_task has returned, every container a successful
\* setup_environment started has been removed exactly once, and no container is
\* ever removed twice.
C2_TeardownExactlyOnce ==
    /\ pc = "done" => \A h \in Provisioned : teardowns[h] = 1
    /\ \A h \in Handles : teardowns[h] <= 1

\* C3: with docker_enabled on, no verification step is run against the "local"
\* handle.
C3_IsolatedStepsNotLocal ==
    config.docker_enabled
        => \A i \in DOMAIN execLog : execLog[i].container_id # "local"

\* C4: evaluate_task runs the steps one by one in list order, each exactly once,
\* whatever the earlier outcomes: the k-th run_verification call is for step k,
\* and on return verification_results has one entry per step, the i-th being an
\* outcome of the i-th step.
C4_EveryStepOnceInOrder ==
    /\ \A k \in DOMAIN execLog : execLog[k].step = k
    /\ pc = "verifying" => Len(execLog) = Len(verification_results)
    /\ pc = "done" =>
          /\ Len(Res.verification_results) = Len(task.verification_steps)
          /\ Len(execLog) = Len(task.verification_steps)
          /\ \A i \in DOMAIN task.verification_steps :
                \E pr \in Probes :
                    Res.verification_results[i]
                        = run_verification(task.verification_steps[i],
                                           execLog[i].container_id, pr).value

\* C4 witness: a two-step evaluation has returned whose first step raised and
\* whose second step passed.
C4_Witness ==
    /\ pc = "done"
    /\ Len(task.verification_steps) = 2
    /\ execLog[1].check # None
    /\ ~Res.verification_results[1].passed
    /\ Res.verification_results[2].passed

\* C5, as stated: run_verification never raises, and for every step kind and
\* every failure of the underlying probe (a missing file, a missing command, a
\* tool that cannot be run, a timeout) the outcome has passed = false and error
\* set to the exception's message.
C5_ProbeFailuresSetError ==
    /\ pc # "aborted"
    /\ \A i \in DOMAIN verification_results :
          execLog[i].failure # "none"
              => /\ verification_results[i].passed = FALSE
                 /\ verification_results[i].error # None

\* C5, amended: an exception raised by a check never leaves run_verification:
\* the step's outcome has passed = false and error = the exception's message,
\* and evaluate_task goes on (it is never aborted); a probe failure the check
\* handles itself (a BOOT_TEST timeout, a file sha256sum cannot hash) gives
\* passed = false with error unset.
C5_CheckExceptionsBecomeOutcomes ==
    /\ pc # "aborted"
    /\ Len(verification_results) = Len(execLog)
    /\ \A i \in DOMAIN execLog :
          /\ execLog[i].check # None
                => /\ verification_results[i].passed = FALSE
                   /\ verification_results[i].error = execLog[i].check
          /\ execLog[i].failure # "none" => verification_results[i].passed = FALSE
          /\ (execLog[i].failure # "none" /\ execLog[i].check = None)
                => verification_results[i].error = None

\* C5 witness: an evaluation returned in which the check of the first step
\* raised and the second step's probe failed without the check raising.
C5_Witness ==
    /\ pc = "done"
    /\ Len(execLog) = 2
    /\ execLog[1].check # None
    /\ Res.verification_results[1].error # None
    /\ execLog[2].failure # "none"
    /\ execLog[2].check = None

\* C6: in the returned result, success is true exactly when every outcome in
\* verification_results has passed = true.
C6_SuccessIsConjunction ==
    pc = "done"
        => (Res.success <=>
                \A i \in DOMAIN Res.verification_results :
                    Res.verification_results[i].passed)

\* C6 witness: a returned result whose first step failed and whose last step
\* passed, with success false.
C6_Witness ==
    /\ pc = "done"
    /\ Len(Res.verification_results) = 2
    /\ ~Res.verification_results[1].passed
    /\ Res.verification_results[2].passed
    /\ ~Res.success

\* C7: in the returned result, steps_completed is the number of passed outcomes,
\* total_steps_attempted is the number of steps, steps_completed <=
\* total_steps_attempted, and partial_score is exactly passed/total (0 when there
\* are no steps), within [0, 1].
C7_PartialScore ==
    pc = "done" =>
        LET k == Cardinality(PassedIdx(Res.verification_results))
            n == Len(task.verification_steps)
            score == Res.partial_score
        IN  /\ Res.steps_completed = k
            /\ Res.total_steps_attempted = n
            /\ Res.steps_completed <= Res.total_steps_attempted
            /\ score.den > 0
            /\ 0 <= score.num /\ score.num <= score.den
            /\ IF n = 0 THEN score.num = 0
               ELSE score.num * n = k * score.den

\* C7 witness: exactly one of two steps passed.
C7_Witness ==
    /\ pc = "done"
    /\ Res.total_steps_attempted = 2
    /\ Res.steps_completed = 1

\* docker answered a build or a start with a failure
DockerFailed(answer) == answer.launch = "oserror" \/ answer.returncode # 0

\* C8: when the image build or the container start fails, setup_environment
\* raises and returns no handle, the error carries docker's diagnostic text,
\* the start is not attempted after a failed build, and every verification step
\* runs against "local" or a handle that a successful provision returned.
C8_ProvisioningFailure ==
    /\ \A i \in DOMAIN provisions :
          LET o == provisions[i].outcome
              build == provisions[i].build
              start == provisions[i].start
          IN  /\ (build # None /\ DockerFailed(build[1]))
                    => /\ o.raised # None
                       /\ o.handle = None
                       /\ ~o.start_run
                       /\ build[1].launch = "ok"
                             => o.raised[1] = <<"Failed to build Docker image",
                                                build[1].stderr>>
              /\ (start # None /\ DockerFailed(start[1]))
                    => /\ o.raised # None
                       /\ o.handle = None
                       /\ start[1].launch = "ok"
                             => o.raised[1] = <<"Failed to start container",
                                                start[1].stderr>>
              /\ o.raised # None => o.handle = None
    /\ \A j \in DOMAIN execLog :
          execLog[j].container_id \in ({"local"} \cup Provisioned)

\* C8 witness: a build failed with a non-zero exit status, and an evaluation
\* with at least one step has returned.
C8_Witness ==
    /\ pc = "done"
    /\ execLog # <<>>
    /\ \E i \in DOMAIN provisions :
          /\ provisions[i].build # None
          /\ provisions[i].build[1].launch = "ok"
          /\ provisions[i].build[1].returncode # 0

\* C9: every run_task call that has ended, whether the agent stream raised or
\* ended normally, has written exactly one trace file, named by its trace id;
\* after a run that raised, that file has success = false and a non-empty
\* errors list.
C9_OneTraceFilePerRun ==
    /\ Len(writes) = Len(runLog)
    /\ \A i \in DOMAIN runLog :
          /\ i \in DOMAIN results
          /\ writes[i] = results[i].trace_id
          /\ writes[i] \in DOMAIN files
          /\ files[writes[i]].trace_id = writes[i]
          /\ runLog[i] # None
                => /\ files[writes[i]].success = FALSE
                   /\ files[writes[i]].errors # <<>>

\* C9 witness: a run raised after a tool call had been recorded, and a
\* different run ended normally.
C9_Witness ==
    /\ \E i \in DOMAIN runLog :
          /\ runLog[i] # None
          /\ files[writes[i]].tool_calls # <<>>
    /\ \E j \in DOMAIN runLog : runLog[j] = None /\ files[writes[j]].success

\* C10: an exception raised by the agent stream is recorded in the errors list
\* of the trace run_task returns and never leaves run_task; when
\* run_all_benchmarks returns, it returns one trace per entry of
\* BENCHMARK_TASKS, in order.
C10_AgentErrorsAreRecorded ==
    /\ ~propagated
    /\ tpc # "aborted"
    /\ \A i \in DOMAIN runLog :
          /\ i \in DOMAIN results
          /\ runLog[i] # None
                => \E k \in DOMAIN results[i].errors :
                      /\ results[i].errors[k].type = runLog[i][1].type
                      /\ results[i].errors[k].message = runLog[i][1].message
    /\ tpc = "finished"
          => /\ Len(results) = Len(BENCHMARK_TASKS)
             /\ \A i \in DOMAIN results : results[i].task_id = BENCHMARK_TASKS[i]

\* C10 witness: run_all_benchmarks has returned, and its first run raised while
\* a later one ended normally.
C10_Witness ==
    /\ tpc = "finished"
    /\ runLog[1] # None
    /\ \E j \in DOMAIN runLog : runLog[j] = None

\* a file is missing or its size lies outside [min_size_mb, max_size_mb],
\* both bounds inclusive and taken as given (an unset bound does not bind)
OutOfBounds(step, file_path) ==
    LET f == fs[file_path]
    IN  \/ f = None
        \/ step.min_size_mb # None /\ f[1].size < step.min_size_mb[1] * BytesPerMB
        \/ step.max_size_mb # None /\ f[1].size > step.max_size_mb[1] * BytesPerMB

\* C11: a SIZE_CHECK outcome is never passed = true when a listed file is
\* missing or has a size outside [min_size_mb, max_size_mb], for every value of
\* the bounds including 0; and when the first listed file is missing or out of
\* bounds the outcome is a failure and no later file is probed.
C11_SizeCheckBounds ==
    check_step.type = "size_check" =>
        \A i \in DOMAIN checkLog :
            /\ (\E k \in DOMAIN check_step.expected_files :
                    OutOfBounds(check_step, check_step.expected_files[k]))
                  => ~checkLog[i].outcome.passed
            /\ (check_step.expected_files # <<>>
                /\ OutOfBounds(check_step, check_step.expected_files[1]))
                  => /\ ~checkLog[i].outcome.passed
                     /\ checkLog[i].probed = <<check_step.expected_files[1]>>

\* the fields the step's kind requires are absent
RequiredFieldsAbsent(step) ==
    \/ step.type \in {"file_check", "size_check", "checksum"} /\ step.expected_files = <<>>
    \/ step.type = "size_check" /\ step.min_size_mb = None /\ step.max_size_mb = None
    \/ step.type \in {"command_output", "boot_test"} /\ step.command = None

\* C12: run_verification on a step whose kind-required fields are absent
\* (no expected_files for FILE_CHECK, SIZE_CHECK, CHECKSUM; no bounds for
\* SIZE_CHECK; no command for COMMAND_OUTPUT, BOOT_TEST) does not raise and
\* returns passed = false.
C12_AbsentFieldsFail ==
    RequiredFieldsAbsent(check_step) =>
        \A i \in DOMAIN checkLog :
            ~checkLog[i].raised /\ ~checkLog[i].outcome.passed

\* the details of an outcome state the timeout value t
DetailsStateTimeout(details, t) ==
    /\ Len(details) = 2
    /\ details[1] \in {"Boot timed out after", "timed out after"}
    /\ details[2] = t

\* C13: a COMMAND_OUTPUT call whose command ran into its timeout returns (it
\* does not raise) an outcome with passed = false whose details contain the
\* timeout value.
C13_CommandTimeoutDetails ==
    check_step.type = "command_output" =>
        \A i \in DOMAIN checkLog :
            checkLog[i].timed_out
                => /\ ~checkLog[i].raised
                   /\ ~checkLog[i].outcome.passed
                   /\ DetailsStateTimeout(checkLog[i].outcome.details, Timeout(check_step))

\* C14: for BOOT_TEST and COMMAND_OUTPUT alike, a call whose command ran into
\* its timeout returns passed = false, details stating the timeout value, and
\* error unset.
C14_TimeoutIsNotAnError ==
    \A i \in DOMAIN checkLog :
        checkLog[i].timed_out
            => /\ ~checkLog[i].outcome.passed
               /\ DetailsStateTimeout(checkLog[i].outcome.details, Timeout(check_step))
               /\ checkLog[i].outcome.error = None

\* C15: with qemu_enabled off, every BOOT_TEST call returns passed = true with
\* details that mark the step as skipped and error unset, launches no command,
\* and every repetition of the call returns the same outcome.
C15_DisabledBootIsSkipped ==
    (check_step.type = "boot_test" /\ ~config.qemu_enabled) =>
        \A i \in DOMAIN checkLog :
            /\ ~checkLog[i].raised
            /\ checkLog[i].outcome.passed
            /\ checkLog[i].outcome.details = <<"QEMU verification disabled">>
            /\ checkLog[i].outcome.error = None
            /\ ~checkLog[i].launched
            /\ \A j \in DOMAIN checkLog : checkLog[j].outcome = checkLog[i].outcome

\* C15 witness: with qemu_enabled off, a BOOT_TEST step without a command (a
\* step that raises when boot verification is on) has been run twice.
C15_Witness ==
    /\ check_step.type = "boot_test"
    /\ ~config.qemu_enabled
    /\ check_step.command = None
    /\ Len(checkLog) = 2

\* C16: every run_verification call that is entered eventually returns an
\* outcome, for every kind of step, locally and inside a container: no call
\* waits forever on an external process.
C16_EveryCallReturns == (cpc = "running") ~> (cpc = "idle")

\* C17: any two distinct run_task runs, of the same or of different tasks, get
\* distinct trace ids, and no trace file is written by more than one run.
C17_TraceIdsDistinct ==
    \A i, j \in DOMAIN results :
        i # j => /\ results[i].trace_id # results[j].trace_id
                 /\ writes[i] # writes[j]

\* C18: two setup_environment calls for the same task, however close in time,
\* never use the same Dockerfile path, the same image name or the same
\* container name.
C18_ProvisionsShareNothing ==
    \A i, j \in DOMAIN provisions :
        i # j =>
            LET a == provisions[i].outcome
                b == provisions[j].outcome
            IN  /\ (a.dockerfile # None /\ b.dockerfile # None) => a.dockerfile # b.dockerfile
                /\ (a.image # None /\ b.image # None) => a.image # b.image
                /\ (a.name # None /\ b.name # None) => a.name # b.name

\* C19: for every Task t, Task.from_dict(t.to_dict()) equals t in every field,
\* including the order of the verification steps and every field of each step.
C19_RoundTrip ==
    restored # None
        => /\ restored[1] = original
           /\ Len(restored[1].verification_steps) = Len(original.verification_steps)
           /\ \A i \in DOMAIN original.verification_steps :
                 restored[1].verification_steps[i] = original.verification_steps[i]

\* C19 witness: a Task with non-default fields and non-empty lists has been read
\* back, whose two steps are of different kinds, the first with command and
\* bounds unset and a timeout other than the default.
C19_Witness ==
    /\ restored # None
    /\ original.tags # <<>>
    /\ original.required_disk_gb # 20
    /\ Len(original.verification_steps) = 2
    /\ original.verification_steps[1].type # original.verification_steps[2].type
    /\ original.verification_steps[1].command = None
    /\ original.verification_steps[1].max_size_mb = None
    /\ original.verification_steps[1].timeout_seconds # DefaultTimeout

\* C20: in the returned result, artifacts_produced is exactly the subsequence
\* of task.success_artifacts whose paths exist when the evaluation ends, in
\* declared order; success and partial_score are determined by the step
\* outcomes alone, whatever artifacts are present.
C20_ArtifactsAreReportedOnly ==
    pc = "done" =>
        LET vr == Res.verification_results
            k == Cardinality(PassedIdx(vr))
        IN  /\ Res.artifacts_produced
                  = FilterSeq(task.success_artifacts, {p \in Paths : fs[p] # None})
            /\ Res.success <=> (\A i \in DOMAIN vr : vr[i].passed)
            /\ IF Len(vr) = 0 THEN Res.partial_score.num = 0
               ELSE Res.partial_score.num * Len(vr) = k * Res.partial_score.den

\* C20 witness: an evaluation succeeded with a FILE_CHECK on f1 that passed,
\* and f1, declared as the second artifact, was gone when the evaluation ended:
\* only the first declared artifact is reported.
C20_Witness ==
    /\ pc = "done"
    /\ task.success_artifacts = <<"f2", "f1">>
    /\ Res.artifacts_produced = <<"f2">>
    /\ Res.success
    /\ \E i \in DOMAIN task.verification_steps :
          task.verification_steps[i].type = "file_check"

\* the listed paths of a step that do not exist, in declared order
MissingOf(step) == FilterSeq(step.expected_files, {p \in Paths : fs[p] = None})

\* C21: a FILE_CHECK outcome has passed = true iff every path of expected_files
\* exists, and when some are missing its details list exactly the missing
\* paths in declared order; an evaluation of [FILE_CHECK(f), SIZE_CHECK(f)]
\* with f missing returns both steps failed, success = false and
\* partial_score = 0.
C21_FileCheck ==
    /\ \A i \in DOMAIN verification_results :
          LET step == task.verification_steps[i]
              outcome == verification_results[i]
          IN  step.type = "file_check"
                => /\ outcome.passed <=> MissingOf(step) = <<>>
                   /\ ~outcome.passed => outcome.details = <<"Missing files", MissingOf(step)>>
    /\ (/\ pc = "done"
        /\ Len(task.verification_steps) = 2
        /\ task.verification_steps[1].type = "file_check"
        /\ task.verification_steps[2].type = "size_check"
        /\ \E k \in DOMAIN task.verification_steps[1].expected_files :
              task.verification_steps[1].expected_files[k] = "f1"
        /\ task.verification_steps[2].expected_files = <<"f1">>
        /\ fs["f1"] = None)
          => /\ ~Res.verification_results[1].passed
             /\ ~Res.verification_results[2].passed
             /\ Res.success = FALSE
             /\ Res.partial_score.num = 0

\* C21 witness: the evaluation of [FILE_CHECK(f2, f1), SIZE_CHECK(f1)] has
\* returned with both files missing, both steps failed.
C21_Witness ==
    /\ pc = "done"
    /\ Len(task.verification_steps) = 2
    /\ task.verification_steps[1].type = "file_check"
    /\ task.verification_steps[1].expected_files = <<"f2", "f1">>
    /\ task.verification_steps[2].type = "size_check"
    /\ fs["f1"] = None /\ fs["f2"] = None
    /\ Res.verification_results[1].details = <<"Missing files", <<"f2", "f1">>>>
    /\ ~Res.verification_results[2].passed

\* C22: a COMMAND_OUTPUT call whose command finished within its timeout
\* passes, when expected_output is set (to any string, the empty string
\* included), iff expected_output is a substring of the output, whatever the
\* exit status; when expected_output is not set, iff the exit status is zero.
C22_CommandOutput ==
    check_step.type = "command_output" =>
        \A i \in DOMAIN checkLog :
            checkLog[i].cmd # None =>
                LET done == checkLog[i].cmd[1]
                IN  IF check_step.expected_output # None
                    THEN checkLog[i].outcome.passed
                            <=> Contains(check_step.expected_output[1], done.output)
                    ELSE checkLog[i].outcome.passed <=> done.returncode = 0

\* hashing the k-th listed file of a CHECKSUM step fails
HashFails(step, k) == fs[step.expected_files[k]] = None

\* the k-th listed file of a CHECKSUM step hashes to the expected digest
HashMatches(step, k) ==
    /\ ~HashFails(step, k)
    /\ fs[step.expected_files[k]][1].digest = step.expected_output[1]

\* C23: whenever sha256sum can be run, a CHECKSUM call fails at the first file
\* whose hashing fails and hashes no file after it; when expected_output holds
\* a digest the call passes iff every listed file hashes to exactly that
\* digest, compared in full and case-sensitively; and repeated calls on the
\* same files return the same passed value.
C23_Checksum ==
    check_step.type = "checksum" =>
        \A i \in DOMAIN checkLog :
            checkLog[i].check = None =>
                LET listed == check_step.expected_files
                    failing == {k \in DOMAIN listed : HashFails(check_step, k)}
                    clean(k) == \A j \in 1..(k - 1) :
                                    /\ j \notin failing
                                    /\ TruthyStr(check_step.expected_output)
                                          => HashMatches(check_step, j)
                IN  /\ \A k \in failing :
                          /\ ~checkLog[i].outcome.passed
                          /\ Len(checkLog[i].probed) <= k
                          /\ clean(k)
                                => /\ checkLog[i].probed = SubSeq(listed, 1, k)
                                   /\ checkLog[i].outcome.details
                                          = <<"Failed to hash", listed[k]>>
                    /\ TruthyStr(check_step.expected_output)
                          => (checkLog[i].outcome.passed
                                <=> \A k \in DOMAIN listed : HashMatches(check_step, k))
                    /\ \A j \in DOMAIN checkLog :
                          checkLog[j].check = None
                              => checkLog[j].outcome.passed = checkLog[i].outcome.passed

\* C23 witness: a CHECKSUM step on two files expecting the 17-character digest
\* has been run twice with sha256sum available, the first file hashing to the
\* expected digest and the second file missing.
C23_Witness ==
    /\ check_step.type = "checksum"
    /\ check_step.expected_output = Some(DigestLong)
    /\ Len(check_step.expected_files) = 2
    /\ HashMatches(check_step, 1)
    /\ HashFails(check_step, 2)
    /\ Len(checkLog) = 2
    /\ checkLog[1].check = None
    /\ checkLog[2].check = None

\* the texts of the text blocks of a content list, in order
RECURSIVE TextsOfContent(_)
TextsOfContent(content) ==
    IF content = <<>> THEN <<>>
    ELSE (IF Head(content).type = "text" THEN <<Head(content).text>> ELSE <<>>)
            \o TextsOfContent(Tail(content))

\* the texts of all assistant text blocks of a list of serialized messages, in
\* emission order
RECURSIVE AllTexts(_)
AllTexts(msgs) ==
    IF msgs = <<>> THEN <<>>
    ELSE (IF Head(msgs).role = "assistant" THEN TextsOfContent(Head(msgs).content) ELSE <<>>)
            \o AllTexts(Tail(msgs))

\* C24: the final_output of a run that completed normally is the last text
\* block the assistant emitted, over all messages and over the blocks of each
\* message, truncated; it is empty iff the assistant emitted no text block.
C24_FinalOutputIsLastText ==
    \A i \in DOMAIN runLog :
        (runLog[i] = None /\ i \in DOMAIN results) =>
            LET texts == AllTexts(results[i].messages)
            IN  /\ texts # <<>>
                    => results[i].final_output
                          = Truncate(texts[Len(texts)], FinalOutputLimit)
                /\ results[i].final_output = <<>> <=> texts = <<>>

\* what holds of the persisted traces in every state, for C25
RunRecordsConsistent ==
    /\ Len(results) = Len(runLog)
    /\ Len(writes) = Len(runLog)
    /\ taskIdx = Len(runLog) + 1
    /\ \A i \in DOMAIN runLog :
          LET f == files[writes[i]]
          IN  /\ f.success <=> f.errors = <<>>
              /\ runLog[i] = None => f.success
              /\ runLog[i] # None
                    => /\ ~f.success
                       /\ Len(f.errors) = 1
                       /\ DOMAIN f.errors[1] = {"type", "message", "timestamp"}
                       /\ f.errors[1].type = runLog[i][1].type
                       /\ f.errors[1].message = runLog[i][1].message

\* what holds of every step of a run, for C25
RunLifecycleStep ==
    /\ tpc' # tpc
          => \/ tpc = "idle" /\ tpc' = "running"
             \/ tpc = "running" /\ tpc' = "idle"
             \/ tpc = "idle" /\ tpc' = "finished"
    /\ (tpc = "idle" /\ tpc' = "running")
          => /\ runLog' = runLog
             /\ writes' = writes
             /\ current_trace'[1].errors = <<>>
             /\ ~current_trace'[1].success
    /\ (tpc = "running" /\ tpc' = "running") => (runLog' = runLog /\ writes' = writes)
    /\ (tpc = "running" /\ tpc' = "idle")
          => /\ Len(runLog') = Len(runLog) + 1
             /\ writes' = Append(writes, trace_id)
             /\ files'[trace_id].total_duration_seconds = clock - start_time
             /\ results'[Len(results')] = files'[trace_id]

\* C25: every run_task call goes idle -> running -> persisted, ending exactly
\* once as completed or as failed, with one pass through the agent stream; in
\* the persisted trace success = true iff errors is empty, a failed run has
\* exactly one error record, with type, message and timestamp, and
\* total_duration_seconds carries the time from the start of the run to its
\* end in both cases.
C25_RunLifecycle == []RunRecordsConsistent /\ [][RunLifecycleStep]_vars

\* C25 witness: a run that took time has failed and a run that took time has
\* completed, both persisted with their duration.
C25_Witness ==
    /\ \E i \in DOMAIN runLog :
          /\ runLog[i] # None
          /\ files[writes[i]].total_duration_seconds > 0
    /\ \E j \in DOMAIN runLog :
          /\ runLog[j] = None
          /\ files[writes[j]].total_duration_seconds > 0

\* C29: the persisted trace of a failed run holds every message the stream
\* delivered before the exception, in order, and every tool call recorded
\* before the exception.
C29_FailedTraceIsComplete ==
    [][(tpc = "running" /\ tpc' = "idle" /\ runLog'[Len(runLog')] # None)
          => /\ files'[trace_id].messages = messages
             /\ files'[trace_id].tool_calls = current_trace[1].tool_calls]_vars

ErrorUpper == <<"E", "R", "R", "O", "R">>

\* s contains "error" with each letter in either case
HasErrorAnyCase(s) ==
    \E i \in 0..(Len(s) - Len(ErrorText)) :
        \A j \in 1..Len(ErrorText) : s[i + j] \in {ErrorText[j], ErrorUpper[j]}

\* the first n characters of s, all of s when it is shorter
FirstChars(s, n) == [i \in 1..(IF Len(s) < n THEN Len(s) ELSE n) |-> s[i]]

\* C27 as stated: success iff the stringified output has no "error" in any
\* letter case, the stored output is its first 5000 characters, and a stored
\* output without "error" is never marked unsuccessful.
C27_ClassifiedOnStoredText ==
    tool_call # None =>
        /\ tool_call[1].success <=> ~HasErrorAnyCase(tool_response)
        /\ tool_call[1].tool_output = FirstChars(tool_response, ToolOutputLimit)
        /\ ~HasErrorAnyCase(tool_call[1].tool_output) => tool_call[1].success

\* C27 amended: success iff the whole stringified output has no "error" in
\* any letter case, and the stored output is its first 5000 characters; the
\* flag is computed on the whole output, not on the stored prefix.
C27_ClassifiedOnWholeOutput ==
    tool_call # None =>
        /\ tool_call[1].success <=> ~HasErrorAnyCase(tool_response)
        /\ tool_call[1].tool_output = FirstChars(tool_response, ToolOutputLimit)
        /\ Len(tool_call[1].tool_output) <= ToolOutputLimit

\* C27 witness: an output longer than the limit whose "error" lies across the
\* cut is stored without it and marked unsuccessful.
C27_Witness ==
    /\ tool_call # None
    /\ Len(tool_response) > ToolOutputLimit
    /\ ~tool_call[1].success
    /\ ~HasErrorAnyCase(tool_call[1].tool_output)
    /\ Len(tool_call[1].tool_output) = ToolOutputLimit

\* the tool use ids of the post-call hooks that found trace k active, in firing order
RECURSIVE PostIdsInto(_, _)
PostIdsInto(log, k) ==
    IF log = <<>> THEN <<>>
    ELSE LET e == log[Len(log)]
             before == PostIdsInto(SubSeq(log, 1, Len(log) - 1), k)
         IN  IF e.hook = "post" /\ e.target = Some(k) THEN Append(before, e.id) ELSE before

\* the tool_input of every entry of a tool_calls list, in order
InputsOf(calls) == [i \in DOMAIN calls |-> calls[i].tool_input]

\* what holds of every trace in every state, for C26
ToolCallsCounted ==
    \A k \in DOMAIN heap :
        /\ heap[k].total_tool_calls = Len(heap[k].tool_calls)
        /\ InputsOf(heap[k].tool_calls) = PostIdsInto(hookLog, k)

\* what holds of every step, for C26
ToolCallsAppendOnly ==
    /\ \A k \in DOMAIN heap :
          /\ Len(heap'[k].tool_calls) >= Len(heap[k].tool_calls)
          /\ SubSeq(heap'[k].tool_calls, 1, Len(heap[k].tool_calls)) = heap[k].tool_calls
    /\ (Len(hookLog') > Len(hookLog) /\ hookLog'[Len(hookLog')].hook = "post" /\ cur = None)
          => heap' = heap

\* C26: in every trace total_tool_calls equals the length of tool_calls,
\* whose entries are those of the post-call hooks that fired while the trace
\* was active, one each, in firing order; tool_calls only grows at its end
\* and no entry is changed or removed; a post-call hook that fires while
\* _current_trace is unset records nothing.
C26_ToolCallsAppendOnly == []ToolCallsCounted /\ [][ToolCallsAppendOnly]_vars

\* C26 witness: a post-call hook has fired with no trace set, and later two
\* post-call hooks have been recorded in one trace.
C26_Witness ==
    /\ \E i \in DOMAIN hookLog : hookLog[i].hook = "post" /\ hookLog[i].target = None
    /\ \E k \in DOMAIN heap : Len(heap[k].tool_calls) = 2
    /\ heap # <<>>

\* call r wrote and returned the trace it created, with its own tool calls
\* only, and the returned trace is as it was written
OwnTrace(r) ==
    /\ runs[r].ret = runs[r].alloc
    /\ runs[r].saved[1].trace_id = runs[r].trace_id
    /\ runs[r].saved[1].task_id = runs[r].task_id
    /\ to_json(heap[runs[r].ret]) = runs[r].saved[1]
    /\ \A i \in DOMAIN heap[runs[r].ret].tool_calls :
          heap[runs[r].ret].tool_calls[i].tool_input[1] = r

\* C28 as stated: whatever the interleaving of the two run_task calls,
\* overlapping ones included, each call writes and returns the trace it
\* created, holding its own tool calls only, and no later hook changes it.
C28_RunsKeepTheirTraces ==
    \A r \in Callers : runs # <<>> /\ runs[r].rpc = "returned" => OwnTrace(r)

\* C28 amended: a run_task call during which the other call was never in
\* progress writes and returns the trace it created, holding its own tool
\* calls only, and the hooks of the other call do not change it.
C28_SequentialRunsKeepTheirTraces ==
    \A r \in Callers :
        (runs # <<>> /\ runs[r].rpc = "returned" /\ ~runs[r].overlapped) => OwnTrace(r)

\* C28 witness: both calls have returned, one after the other, each with a
\* tool call recorded.
C28_Witness ==
    /\ runs # <<>>
    /\ \A r \in Callers :
          /\ runs[r].rpc = "returned"
          /\ ~runs[r].overlapped
          /\ heap[runs[r].alloc].tool_calls # <<>>

\* C30: the duration recorded by a post-call hook is the time since the
\* pre-call hook of the same tool use, whatever the order of the hooks, and
\* is never negative.
C30_DurationFromMatchingPreHook ==
    \A k \in DOMAIN hookLog :
        hookLog[k].hook = "post" =>
            /\ hookLog[k].duration >= 0
            /\ \A j \in 1..(k - 1) :
                  (hookLog[j].hook = "pre" /\ hookLog[j].id = hookLog[k].id)
                      => hookLog[k].duration = hookLog[k].at - hookLog[j].at

====
